---- MODULE Spec2Model ----
(***************************************************************************)
(* LiftGraph workout tracker: the progression engine, the plate model,     *)
(* the schedule resolver with its legacy migration, the schedule and       *)
(* session handlers of App (liftgraph/src/App.tsx) and the split import    *)
(* dialog (liftgraph/src/SplitEditor.tsx).                                 *)
(*                                                                         *)
(* Weights are integers counting quarter pounds, so that the 2.5 plate and *)
(* the half-pound rounding of platesForWeightPerSide stay in the integers. *)
(* Ratios (dirtyPenalty, maxDirtyRatioToProgress, dirtyRatio) are records  *)
(* [num, den]; the values used are dyadic or correctly rounded quotients,  *)
(* for which the code's floating-point comparisons agree with the exact    *)
(* ones.  An optional value (undefined or null in the code) is the empty   *)
(* sequence, a present one a one-element sequence.                         *)
(***************************************************************************)
EXTENDS Integers, Sequences, FiniteSets, TLC

VARIABLES
    lastOp,      \* name of the operation that produced the current state
    ex,          \* computeSuggestion: the ExerciseSettings argument
    sets,        \* computeSuggestion: the SetEntry[] argument
    suggestion,  \* computeSuggestion: the returned value (Undefined = null)
    raw,         \* ensureV2State / resolveWorkoutForDay: the PersistedState argument
    day,         \* resolveWorkoutForDay: the DayName argument
    migrated,    \* ensureV2State(raw), once called
    again,       \* ensureV2State(ensureV2State(raw)), once called
    resolved,    \* resolveWorkoutForDay(raw, day), once called
    state,       \* App: the PersistedState held by useState
    tab,         \* App: the selected bottom-navigation tab
    screen,      \* App: the Screen value
    confirmState,\* App: the pending ConfirmDialog request, if any
    addModalOpen,\* SessionView: whether the add-set modal is open
    draft,       \* SessionView: the AddSetDraft, if any
    uidCounter,  \* number of ids handed out by uid(); also the clock
    page,        \* SplitEditorPage: its state prop and its import-dialog hooks
    heap,        \* the objects and arrays reachable by reference, by address
    input,       \* address of the PersistedState the caller passed in
    current,     \* address of the PersistedState held now (0 before migration)
    edits,       \* number of edits made after the migration
    target,      \* platesForWeightPerSide: the per-side weight argument
    loaded,      \* platesPerSideToTotal: the plate counts argument
    bar,         \* platesPerSideToTotal: the bar weight argument
    total        \* platesPerSideToTotal(plates, barWeight), once called

pureVars == <<ex, sets, suggestion, raw, day, migrated, again, resolved,
              heap, input, current, edits, target, loaded, bar, total>>

appVars == <<state, tab, screen, confirmState, addModalOpen, draft, uidCounter>>

pageVars == <<page>>

vars == <<lastOp, pureVars, appVars, pageVars>>

\* ------------------------------ bounds ---------------------------------

MaxHistory == 2

MaxTemplates == 2

MaxUid == 1

MaxIds == 3

MaxWeeks == 2

\* ------------------------------ helpers --------------------------------

Undefined == <<>>

Some(v) == <<v>>

IsDefined(o) == o # <<>>

Val(o) == o[1]

Lb(n) == n * 4

Ratio(n, d) == [num |-> n, den |-> d]

RatioLeq(a, b) == a.num * b.den <= b.num * a.den

Range(s) == {s[i] : i \in DOMAIN s}

\* the string-typed null (a rest day-slot, an unset activeWeek, no workoutId)
Null == "null"

\* Array.prototype.find: the first element passing the test, if any
\* hits is the set of indices whose elements pass the test
Find(seq, hits) ==
    IF hits = {} THEN Undefined
    ELSE Some(seq[CHOOSE i \in hits : \A j \in hits : i <= j])

\* --------------------------- seed data ---------------------------------

DefaultRepScheme ==
    [workRangeMin |-> 5, workRangeMax |-> 10,
     progressMinClean |-> 10, progressMaxClean |-> 12,
     dirtyPenalty |-> Ratio(1, 2),
     maxDirtyRatioToProgress |-> Ratio(1, 5)]

mkEx(id, name, equipment) ==
    [id |-> id, name |-> name, equipment |-> equipment,
     repScheme |-> DefaultRepScheme,
     dbIncrementPerHand |-> Lb(5),
     barbellIncrementPerSide |-> Lb(10),
     otherIncrementTotal |-> Lb(5),
     barWeight |-> Lb(45)]

\* --------------------------- plate model -------------------------------

PLATES == <<Lb(45), Lb(35), Lb(25), Lb(10), Lb(5), 10>>

emptyPlateCounts == [p \in Range(PLATES) |-> 0]

\* plates[p] || 0
PlateCount(plates, p) == IF p \in DOMAIN plates THEN plates[p] ELSE 0

RECURSIVE SideSum(_, _)
SideSum(plates, i) ==
    IF i > Len(PLATES) THEN 0
    ELSE PLATES[i] * PlateCount(plates, PLATES[i]) + SideSum(plates, i + 1)

platesPerSideToTotalOneSide(plates, barWeight) == barWeight + SideSum(plates, 1)

platesPerSideToTotal(plates, barWeight) == barWeight + SideSum(plates, 1) * 2

addPlateCountsLeft(a, b) ==
    [p \in Range(PLATES) |-> PlateCount(a, p)]

addPlateCounts(a, b) ==
    [p \in Range(PLATES) |-> PlateCount(a, p) + PlateCount(b, p)]

\* Math.round(w * 2) / 2 on a weight in quarter pounds (ties round up)
RoundHalf(w) == ((w + 1) \div 2) * 2

\* the loop taking at most one plate of each denomination
RECURSIVE PlatesLoopOnce(_, _, _)
PlatesLoopOnce(remaining, out, i) ==
    IF i > Len(PLATES) THEN out
    ELSE LET p == PLATES[i]
         IN  IF remaining >= p
             THEN PlatesLoopOnce(RoundHalf(remaining - p),
                                 [out EXCEPT ![p] = 1], i + 1)
             ELSE PlatesLoopOnce(remaining, out, i + 1)

RECURSIVE PlatesLoop(_, _, _)
PlatesLoop(remaining, out, i) ==
    IF i > Len(PLATES) THEN out
    ELSE LET p == PLATES[i]
             count == remaining \div p
         IN  IF count > 0
             THEN PlatesLoop(RoundHalf(remaining - count * p),
                             [out EXCEPT ![p] = count], i + 1)
             ELSE PlatesLoop(remaining, out, i + 1)

\* the plates of twice the weight: both sides on one side
platesForWeightBothSides(w) == PlatesLoop(RoundHalf(w * 2), emptyPlateCounts, 1)

platesForWeightPerSide(w) == PlatesLoop(RoundHalf(w), emptyPlateCounts, 1)

\* --------------------------- weight normalizer -------------------------

setTotalWeightPerHand(e, s) ==
    IF e.equipment = "barbell" /\ IsDefined(s.barbellPlatesPerSide)
    THEN platesPerSideToTotal(Val(s.barbellPlatesPerSide), e.barWeight)
    ELSE IF IsDefined(s.weight) THEN Val(s.weight) ELSE 0

setTotalWeight(e, s) ==
    IF e.equipment = "barbell" /\ IsDefined(s.barbellPlatesPerSide)
    THEN platesPerSideToTotal(Val(s.barbellPlatesPerSide), e.barWeight)
    ELSE IF e.equipment = "db"
    THEN (IF IsDefined(s.weight) THEN Val(s.weight) ELSE 0) * 2
    ELSE IF IsDefined(s.weight) THEN Val(s.weight) ELSE 0

\* --------------------------- progression engine ------------------------

\* effectiveReps is kept in units of 1/den of the exercise's dirtyPenalty
Score(e, s) ==
    LET totalReps == s.cleanReps + s.dirtyReps
    IN  [s |-> s,
         totalReps |-> totalReps,
         dirtyRatio |-> IF totalReps = 0 THEN Ratio(0, 1)
                        ELSE Ratio(s.dirtyReps, totalReps),
         effectiveReps |-> s.cleanReps * e.repScheme.dirtyPenalty.den
                           + s.dirtyReps * e.repScheme.dirtyPenalty.num,
         weightTotal |-> setTotalWeight(e, s)]

InsertDescLast(sorted, x) ==
    LET k == Cardinality({i \in DOMAIN sorted :
                             sorted[i].effectiveReps > x.effectiveReps})
    IN  SubSeq(sorted, 1, k) \o <<x>> \o SubSeq(sorted, k + 1, Len(sorted))

\* one step of the stable sort: x goes after every element that does not
\* compare greater than it (comparator b.effectiveReps - a.effectiveReps)
InsertDesc(sorted, x) ==
    LET k == Cardinality({i \in DOMAIN sorted :
                             sorted[i].effectiveReps >= x.effectiveReps})
    IN  SubSeq(sorted, 1, k) \o <<x>> \o SubSeq(sorted, k + 1, Len(sorted))

RECURSIVE SortDesc(_)
SortDesc(scored) ==
    IF scored = <<>> THEN <<>>
    ELSE InsertDesc(SortDesc(SubSeq(scored, 1, Len(scored) - 1)),
                    scored[Len(scored)])

canProgressStrict(best, scheme) ==
    /\ best.s.cleanReps > scheme.progressMinClean
    /\ RatioLeq(best.dirtyRatio, scheme.maxDirtyRatioToProgress)

canProgress(best, scheme) ==
    /\ best.s.cleanReps >= scheme.progressMinClean
    /\ RatioLeq(best.dirtyRatio, scheme.maxDirtyRatioToProgress)

\* the action and which of the four messages is produced
Decide(best, scheme) ==
    IF canProgress(best, scheme)
    THEN [action |-> "increase", message |-> "progress"]
    ELSE IF best.s.cleanReps < scheme.workRangeMin
    THEN [action |-> "decrease", message |-> "below_range"]
    ELSE IF ~RatioLeq(best.dirtyRatio, scheme.maxDirtyRatioToProgress)
    THEN [action |-> "hold", message |-> "too_dirty"]
    ELSE [action |-> "hold", message |-> "add_clean"]

relevantAll(e, ss) == ss

\* sets.filter((s) => s.exerciseId === ex.id)
relevant(e, ss) == SelectSeq(ss, LAMBDA s : s.exerciseId = e.id)

incPerSide(e) ==
    IF e.equipment = "db" THEN e.dbIncrementPerHand * 2
    ELSE IF e.equipment = "barbell" THEN e.barbellIncrementPerSide
    ELSE e.otherIncrementTotal

inc(e) ==
    IF e.equipment = "db" THEN e.dbIncrementPerHand * 2
    ELSE IF e.equipment = "barbell" THEN e.barbellIncrementPerSide * 2
    ELSE e.otherIncrementTotal

nextWeightUnfloored(action, weightTotal, by) ==
    IF action = "increase" THEN weightTotal + by
    ELSE IF action = "decrease" THEN weightTotal - by
    ELSE weightTotal

\* Math.max(0, best.weightTotal - inc) on a decrease
nextWeight(action, weightTotal, by) ==
    IF action = "increase" THEN weightTotal + by
    ELSE IF action = "decrease"
    THEN IF weightTotal - by >= 0 THEN weightTotal - by ELSE 0
    ELSE weightTotal

computeSuggestion(e, ss) ==
    IF Len(relevant(e, ss)) = 0 THEN Undefined
    ELSE
        LET scored == SortDesc([i \in DOMAIN relevant(e, ss) |->
                                  Score(e, relevant(e, ss)[i])])
            best == scored[1]
            scheme == e.repScheme
            d == Decide(best, scheme)
            action == d.action
            bestPlates ==
                IF e.equipment = "barbell" /\ IsDefined(best.s.barbellPlatesPerSide)
                THEN best.s.barbellPlatesPerSide ELSE Undefined
            deltaPerSide ==
                IF e.equipment = "barbell" THEN e.barbellIncrementPerSide ELSE 0
            deltaPlatesPerSide ==
                IF e.equipment = "barbell" /\ action = "increase"
                THEN Some(platesForWeightPerSide(deltaPerSide)) ELSE Undefined
            nextPlatesPerSide ==
                IF e.equipment = "barbell" /\ IsDefined(bestPlates)
                   /\ IsDefined(deltaPlatesPerSide)
                THEN Some(addPlateCounts(Val(bestPlates), Val(deltaPlatesPerSide)))
                ELSE Undefined
        IN  Some([best |-> best,
                  action |-> action,
                  nextWeight |-> nextWeight(action, best.weightTotal, inc(e)),
                  inc |-> inc(e),
                  message |-> d.message,
                  barbell |->
                    IF e.equipment = "barbell"
                    THEN Some([bestPlates |-> bestPlates,
                               deltaPlatesPerSide |-> deltaPlatesPerSide,
                               nextPlatesPerSide |-> nextPlatesPerSide])
                    ELSE Undefined])

\* --------------------------- schedule: migration -----------------------

ALL_DAYS ==
    <<"Monday", "Tuesday", "Wednesday", "Thursday", "Friday", "Saturday",
      "Sunday">>

\* a week without its weekend slots
emptySplitWeekWorkdays ==
    [days |-> [d \in Range(SubSeq(ALL_DAYS, 1, 5)) |-> Null]]

emptySplitWeek == [days |-> [d \in Range(ALL_DAYS) |-> Null]]

cloneSplitWeek(w) == [days |-> [d \in DOMAIN w.days |-> w.days[d]]]

HasV2(st) ==
    IsDefined(st.workoutLibrary) /\ IsDefined(st.split) /\ IsDefined(st.settings)

\* for (const w of raw.workouts) if (week1.days[w.day] == null) ... = w.id,
\* overwriting instead of keeping the first
RECURSIVE FillWeekLast(_, _, _)
FillWeekLast(week1, workouts, i) ==
    IF i > Len(workouts) THEN week1
    ELSE LET w == workouts[i]
         IN  FillWeekLast([week1 EXCEPT !.days[w.day] = w.id], workouts, i + 1)

\* for (const w of raw.workouts) if (week1.days[w.day] == null) ... = w.id
RECURSIVE FillWeek(_, _, _)
FillWeek(week1, workouts, i) ==
    IF i > Len(workouts) THEN week1
    ELSE LET w == workouts[i]
         IN  IF week1.days[w.day] = Null
             THEN FillWeek([week1 EXCEPT !.days[w.day] = w.id], workouts, i + 1)
             ELSE FillWeek(week1, workouts, i + 1)

LibraryOf(workouts) ==
    [i \in DOMAIN workouts |->
        [id |-> workouts[i].id, name |-> workouts[i].name,
         exerciseIds |-> workouts[i].exerciseIds]]

Rebuild(st) ==
    LET week1 == FillWeek(emptySplitWeek, st.workouts, 1)
        week2 == cloneSplitWeek(week1)
    IN  [st EXCEPT
           !.workoutLibrary = Some(LibraryOf(st.workouts)),
           !.split = Some([week1 |-> week1, week2 |-> week2]),
           !.settings = Some([activeWeek |-> "week1",
                              keepScreenAwake |-> Undefined])]

ensureV2StateAlways(st) == Rebuild(st)

ensureV2State(st) == IF HasV2(st) THEN st ELSE Rebuild(st)

\* --------------------------- schedule: resolver ------------------------

ActiveWeekOfWeek1(st) == "week1"

\* st.settings?.activeWeek ?? "week1"
ActiveWeekOf(st) ==
    IF IsDefined(st.settings) /\ Val(st.settings).activeWeek # Null
    THEN Val(st.settings).activeWeek ELSE "week1"

NoWorkout(activeWeek) ==
    [workout |-> Undefined, workoutId |-> Null, activeWeek |-> activeWeek]

ResolveLegacy(st, d, activeWeek) ==
    LET legacy == Find(st.workouts, {i \in DOMAIN st.workouts : st.workouts[i].day = d})
    IN  IF ~IsDefined(legacy) THEN NoWorkout(activeWeek)
        ELSE [workout |-> Some([id |-> Val(legacy).id,
                                name |-> Val(legacy).name,
                                exerciseIds |-> Val(legacy).exerciseIds]),
              workoutId |-> Val(legacy).id,
              activeWeek |-> activeWeek]

LibraryFind(st, v2Id) ==
    IF IsDefined(st.workoutLibrary)
    THEN LET lib == Val(st.workoutLibrary)
         IN  Find(lib, {i \in DOMAIN lib : lib[i].id = v2Id})
    ELSE Undefined

ResolveV2OrLegacy(st, d, v2Id, activeWeek) ==
    LET w == LibraryFind(st, v2Id)
    IN  IF IsDefined(w)
        THEN [workout |-> w, workoutId |-> Val(w).id, activeWeek |-> activeWeek]
        ELSE ResolveLegacy(st, d, activeWeek)

ResolveV2(st, d, v2Id, activeWeek) ==
    LET w == LibraryFind(st, v2Id)
    IN  IF IsDefined(w)
        THEN [workout |-> w, workoutId |-> Val(w).id, activeWeek |-> activeWeek]
        ELSE NoWorkout(activeWeek)

resolveWorkoutForDay(st, d) ==
    LET activeWeek == ActiveWeekOf(st)
        v2Id == IF IsDefined(st.split) THEN Val(st.split)[activeWeek].days[d]
                ELSE Null
    IN  IF v2Id # Null /\ v2Id # ""
        THEN ResolveV2(st, d, v2Id, activeWeek)
        ELSE ResolveLegacy(st, d, activeWeek)

\* ------------------ computeSuggestion on bounded inputs ------------------

\* every Equipment, under the default scheme and under a user-edited one,
\* with the default increments and with user-edited ones
SuggestExercises ==
    LET AltRepScheme ==
          [workRangeMin |-> 10, workRangeMax |-> 12,
           progressMinClean |-> 9, progressMaxClean |-> 12,
           dirtyPenalty |-> Ratio(1, 1),
           maxDirtyRatioToProgress |-> Ratio(1, 2)]
        Default == mkEx("t_x", "Test", "db")
        Increments ==
          {[db |-> Default.dbIncrementPerHand,
            barbell |-> Default.barbellIncrementPerSide,
            other |-> Default.otherIncrementTotal],
           [db |-> Lb(10), barbell |-> Lb(35) + Lb(5) \div 2, other |-> Lb(15)],
           [db |-> Lb(10), barbell |-> Lb(12), other |-> Lb(15)]}
    IN  {[mkEx("t_x", "Test", eq) EXCEPT
            !.repScheme = rs,
            !.dbIncrementPerHand = by.db,
            !.barbellIncrementPerSide = by.barbell,
            !.otherIncrementTotal = by.other] :
            eq \in {"db", "barbell", "machine", "cable", "bodyweight"},
            rs \in {DefaultRepScheme, AltRepScheme}, by \in Increments}

SetEntry(id, exerciseId, reps, wf, kind, parent) ==
    [id |-> id, exerciseId |-> exerciseId, kind |-> kind,
     parentSetId |-> parent,
     weight |-> wf.weight, barbellPlatesPerSide |-> wf.barbellPlatesPerSide,
     cleanReps |-> reps[1], dirtyReps |-> reps[2]]

\* histories of at most MaxHistory sets; a set's id is its position
Histories ==
    LET \* <<cleanReps, dirtyReps>> of the logged sets
        RepPairs == {<<10, 0>>, <<10, 5>>, <<9, 2>>, <<4, 0>>, <<0, 0>>}
        \* the weight a set carries: a scalar, plate counts, or neither
        WeightForms ==
          {[weight |-> Some(Lb(60)), barbellPlatesPerSide |-> Undefined],
           [weight |-> Undefined,
            barbellPlatesPerSide |->
              Some([emptyPlateCounts EXCEPT ![Lb(10)] = 1])],
           [weight |-> Undefined, barbellPlatesPerSide |-> Undefined]}
    IN  UNION {{[i \in 1..n |->
                    SetEntry(i, h[i][1], h[i][2], h[i][3], "normal", Undefined)] :
                h \in [1..n -> {"t_x", "t_other"} \X RepPairs \X WeightForms]} :
               n \in 0..MaxHistory}

IdleSuggest ==
    /\ ex = mkEx("t_x", "Test", "cable")
    /\ sets = <<>>
    /\ suggestion = Undefined

EmptyState ==
    [exercises |-> <<>>, workouts |-> <<>>, workoutLibrary |-> Undefined,
     split |-> Undefined, settings |-> Undefined, sessions |-> <<>>]

IdleMigrate ==
    /\ raw = EmptyState
    /\ day = "Monday"
    /\ migrated = Undefined
    /\ again = Undefined
    /\ resolved = Undefined

IdleHeap ==
    /\ heap = <<>>
    /\ input = 0
    /\ current = 0
    /\ edits = 0

IdlePlates ==
    /\ target = 0
    /\ loaded = emptyPlateCounts
    /\ bar = 0
    /\ total = Undefined

IdleApp ==
    /\ state = EmptyState
    /\ tab = "Today"
    /\ screen = [name |-> "home", id |-> Null]
    /\ confirmState = Undefined
    /\ addModalOpen = FALSE
    /\ draft = Undefined
    /\ uidCounter = 0

EmptyText == [label |-> "", parsed |-> Undefined]

IdlePage ==
    page = [state |-> [exercises |-> <<>>, workoutLibrary |-> Undefined,
                       split |-> Undefined, sessions |-> <<>>],
            importOpen |-> FALSE, importText |-> EmptyText,
            importError |-> Undefined, importReady |-> FALSE,
            importWeeks |-> Undefined]

InitSuggest ==
    /\ lastOp = "init"
    /\ ex \in SuggestExercises
    /\ sets \in Histories
    /\ suggestion = Undefined
    /\ IdleMigrate
    /\ IdleHeap
    /\ IdlePlates
    /\ IdleApp
    /\ IdlePage

ComputeSuggestion ==
    /\ lastOp = "init"
    /\ suggestion' = computeSuggestion(ex, sets)
    /\ lastOp' = "computeSuggestion"
    /\ UNCHANGED <<ex, sets, raw, day, migrated, again, resolved, heap, input, current, edits,
                   target, loaded, bar, total,
                   appVars, pageVars>>

NextSuggest == ComputeSuggestion

SpecSuggest == InitSuggest /\ [][NextSuggest]_vars

\* ----------- ensureV2State / resolveWorkoutForDay on bounded inputs ------

Templates ==
    {[id |-> id, name |-> IF id = "w_a" THEN "A" ELSE "B", day |-> d,
      exerciseIds |-> es] :
        id \in {"w_a", "w_b"}, d \in {"Monday", "Wednesday"},
        es \in {<<"t_x", "t_y">>, <<"t_y">>}}

\* legacy, partly migrated and migrated states: at most MaxTemplates
\* templates; a library; a split whose weeks differ and one holding an id
\* that no library has; settings with and without an active week
RawStates ==
    LET LegacyWorkouts == UNION {[1..n -> Templates] : n \in 0..MaxTemplates}
        Lib2 ==
          <<[id |-> "w_a", name |-> "A2", exerciseIds |-> <<"t_x">>],
            [id |-> "w_b", name |-> "B2", exerciseIds |-> <<"t_y", "t_x">>]>>
        WeekWith(mon, wed) ==
          [days |-> [emptySplitWeek.days EXCEPT !["Monday"] = mon, !["Wednesday"] = wed]]
        Splits ==
          {[week1 |-> WeekWith("w_a", Null), week2 |-> WeekWith("w_b", "w_a")],
           [week1 |-> WeekWith(Null, "w_b"), week2 |-> WeekWith("w_gone", Null)]}
        Optional(S) == {Undefined} \cup {Some(v) : v \in S}
    IN  {[exercises |-> <<>>, workouts |-> ws, workoutLibrary |-> lib,
          split |-> sp, settings |-> se, sessions |-> <<>>] :
            ws \in LegacyWorkouts, lib \in Optional({Lib2}),
            sp \in Optional(Splits),
            se \in Optional({[activeWeek |-> w, keepScreenAwake |-> Undefined] :
                                w \in {"week1", "week2", Null}})}

InitMigrate ==
    /\ lastOp = "init"
    /\ raw \in RawStates
    /\ day \in {"Monday", "Wednesday", "Sunday"}
    /\ migrated = Undefined
    /\ again = Undefined
    /\ resolved = Undefined
    /\ IdleSuggest
    /\ IdleHeap
    /\ IdlePlates
    /\ IdleApp
    /\ IdlePage

EnsureV2 ==
    /\ lastOp = "init"
    /\ migrated' = Some(ensureV2State(raw))
    /\ lastOp' = "ensureV2State"
    /\ UNCHANGED <<ex, sets, suggestion, raw, day, again, resolved, heap, input, current, edits,
                   target, loaded, bar, total,
                   appVars, pageVars>>

EnsureV2Again ==
    /\ lastOp = "ensureV2State"
    /\ again' = Some(ensureV2State(Val(migrated)))
    /\ lastOp' = "ensureV2StateAgain"
    /\ UNCHANGED <<ex, sets, suggestion, raw, day, migrated, resolved, heap, input, current, edits,
                   target, loaded, bar, total,
                   appVars, pageVars>>

Resolve ==
    /\ lastOp = "init"
    /\ resolved' = Some(resolveWorkoutForDay(raw, day))
    /\ lastOp' = "resolveWorkoutForDay"
    /\ UNCHANGED <<ex, sets, suggestion, raw, day, migrated, again, heap, input, current, edits,
                   target, loaded, bar, total,
                   appVars, pageVars>>

NextMigrate == EnsureV2 \/ EnsureV2Again \/ Resolve

SpecMigrate == InitMigrate /\ [][NextMigrate]_vars

\* ------------- ensureV2State / updateSplitDay on references -------------

\* Objects and arrays live in heap, a sequence of cells addressed by index;
\* a literal or a spread appends a cell, an assignment through a reference
\* rewrites one.  Cells: a PersistedState [exercises, workouts, sessions,
\* workoutLibrary, split, settings], an array of references [refs], an
\* array of ids [ids], a template [id, name, day, exerciseIds], a library
\* item [id, name, exerciseIds], a split [week1, week2], a SplitWeek [days]
\* and its days object [slots].

MaxEdits == 2

\* { id: w.id, name: w.name, exerciseIds: w.exerciseIds }: the array shared
LibraryItemAliased(h, t) ==
    LET h1 == Append(h, [id |-> h[t].id, name |-> h[t].name,
                         exerciseIds |-> h[t].exerciseIds])
    IN  [heap |-> h1, ref |-> Len(h1)]

\* { id: w.id, name: w.name, exerciseIds: [...w.exerciseIds] }
LibraryItemRef(h, t) ==
    LET h1 == Append(h, [ids |-> h[h[t].exerciseIds].ids])
        h2 == Append(h1, [id |-> h[t].id, name |-> h[t].name,
                          exerciseIds |-> Len(h1)])
    IN  [heap |-> h2, ref |-> Len(h2)]

\* { days: w.days }: the days object shared
cloneSplitWeekShallow(h, w) ==
    LET h1 == Append(h, [days |-> h[w].days])
    IN  [heap |-> h1, ref |-> Len(h1)]

\* { days: { ...w.days } }
cloneSplitWeekRef(h, w) ==
    LET h1 == Append(h, [slots |-> h[h[w].days].slots])
        h2 == Append(h1, [days |-> Len(h1)])
    IN  [heap |-> h2, ref |-> Len(h2)]

ensureV2StateRef(h, st) ==
    IF HasV2(h[st]) THEN [heap |-> h, ref |-> st]
    ELSE
    LET templates == h[h[st].workouts].refs
        \* (raw.workouts || []).map(...)
        RECURSIVE Map(_, _, _)
        Map(g, i, items) ==
            IF i > Len(templates)
            THEN [heap |-> Append(g, [refs |-> items]), ref |-> Len(g) + 1]
            ELSE LET item == LibraryItemRef(g, templates[i])
                 IN  Map(item.heap, i + 1, Append(items, item.ref))
        library == Map(h, 1, <<>>)
        \* emptySplitWeek()
        h1 == Append(library.heap, [slots |-> emptySplitWeek.days])
        h2 == Append(h1, [days |-> Len(h1)])
        week1 == Len(h2)
        \* the loop assigns into week1.days
        h3 == [h2 EXCEPT ![Len(h1)].slots =
                  FillWeek([days |-> @], [i \in DOMAIN templates |-> h[templates[i]]], 1).days]
        week2 == cloneSplitWeekRef(h3, week1)
        h4 == Append(week2.heap, [week1 |-> week1, week2 |-> week2.ref])
        h5 == Append(h4, [h[st] EXCEPT
                            !.workoutLibrary = Some(library.ref),
                            !.split = Some(Len(h4)),
                            !.settings = Some([activeWeek |-> "week1",
                                               keepScreenAwake |-> Undefined])])
    IN  [heap |-> h5, ref |-> Len(h5)]

updateSplitDayRef(h, st, week, d, workoutId) ==
    LET v2 == ensureV2StateRef(h, st)
        \* the returned literal, over the heap and the address of v2
        Literal(g, s) ==
            LET split == g[Val(g[s].split)]
                n == Len(g)
            IN  [heap |-> g \o
                    <<[slots |-> [g[g[split[week]].days].slots EXCEPT ![d] = workoutId]],
                      [days |-> n + 1],
                      [split EXCEPT ![week] = n + 2],
                      [g[s] EXCEPT !.split = Some(n + 3)]>>,
                 ref |-> n + 4]
    IN  Literal(v2.heap, v2.ref)

InitHeap ==
    /\ lastOp = "init"
    /\ \E n \in 0..MaxTemplates : \E workouts \in [1..n -> Templates] :
          LET \* the legacy templates of a caller, each with its own exerciseIds
              RECURSIVE Store(_, _, _)
              Store(g, i, templates) ==
                  IF i > Len(workouts)
                  THEN [heap |-> Append(g, [refs |-> templates]), ref |-> Len(g) + 1]
                  ELSE LET g1 == Append(g, [ids |-> workouts[i].exerciseIds])
                           g2 == Append(g1, [workouts[i] EXCEPT !.exerciseIds = Len(g1)])
                       IN  Store(g2, i + 1, Append(templates, Len(g2)))
              stored == Store(<<[refs |-> <<>>]>>, 1, <<>>)
              h == Append(stored.heap,
                          [exercises |-> 1, workouts |-> stored.ref, sessions |-> 1,
                           workoutLibrary |-> Undefined, split |-> Undefined,
                           settings |-> Undefined])
          IN  heap = h /\ input = Len(h)
    /\ current = 0
    /\ edits = 0
    /\ IdleSuggest
    /\ IdleMigrate
    /\ IdlePlates
    /\ IdleApp
    /\ IdlePage

\* const migrated = ensureV2State(legacy)
MigrateRef ==
    /\ current = 0
    /\ LET v2 == ensureV2StateRef(heap, input)
       IN  heap' = v2.heap /\ current' = v2.ref
    /\ lastOp' = "ensureV2StateRef"
    /\ UNCHANGED <<ex, sets, suggestion, raw, day, migrated, again, resolved,
                   input, edits, target, loaded, bar, total, appVars, pageVars>>

\* migrated.split.week2.days.Monday = null, for any week, day and value
SetSlotDirect ==
    /\ current # 0
    /\ edits < MaxEdits
    /\ \E week \in {"week1", "week2"}, d \in {"Monday", "Tuesday"},
          workoutId \in {Null, "w_b"} :
          heap' = [heap EXCEPT ![heap[heap[Val(heap[current].split)][week]].days].slots[d] =
                                  workoutId]
    /\ edits' = edits + 1
    /\ lastOp' = "setSlotDirect"
    /\ UNCHANGED <<ex, sets, suggestion, raw, day, migrated, again, resolved,
                   input, current, target, loaded, bar, total, appVars, pageVars>>

\* setState((st) => ...) of updateSplitDay
UpdateSplitDayRef ==
    /\ current # 0
    /\ edits < MaxEdits
    /\ \E week \in {"week1", "week2"}, d \in {"Monday", "Tuesday"},
          workoutId \in {Null, "w_b"} :
          LET next == updateSplitDayRef(heap, current, week, d, workoutId)
          IN  heap' = next.heap /\ current' = next.ref
    /\ edits' = edits + 1
    /\ lastOp' = "updateSplitDayRef"
    /\ UNCHANGED <<ex, sets, suggestion, raw, day, migrated, again, resolved,
                   input, target, loaded, bar, total, appVars, pageVars>>

\* an edit in place of a migrated library item's exerciseIds
PushExerciseId ==
    /\ current # 0
    /\ edits < MaxEdits
    /\ \E item \in Range(heap[Val(heap[current].workoutLibrary)].refs) :
          heap' = [heap EXCEPT ![heap[item].exerciseIds].ids = Append(@, "t_new")]
    /\ edits' = edits + 1
    /\ lastOp' = "pushExerciseId"
    /\ UNCHANGED <<ex, sets, suggestion, raw, day, migrated, again, resolved,
                   input, current, target, loaded, bar, total, appVars, pageVars>>

NextHeap == MigrateRef \/ SetSlotDirect \/ UpdateSplitDayRef \/ PushExerciseId

SpecHeap == InitHeap /\ [][NextHeap]_vars

\* ------------------ the plate model on bounded inputs --------------------

\* per-side targets run over every quarter pound up to MaxTarget
MaxTarget == 200

\* plate counts run up to MaxCount per denomination
MaxCount == 1

\* either a per-side target to decompose, or plate counts to total: counts
\* over any subset of the denominations (the others missing), on no bar or
\* on the default bar
InitPlates ==
    /\ lastOp = "init"
    /\ bar \in {0, Lb(45)}
    /\ \/ /\ target \in 0..MaxTarget
          /\ loaded = emptyPlateCounts
       \/ /\ target = 0
          /\ \E present \in SUBSET Range(PLATES) : loaded \in [present -> 0..MaxCount]
    /\ total = Undefined
    /\ IdleSuggest
    /\ IdleMigrate
    /\ IdleHeap
    /\ IdleApp
    /\ IdlePage

PlatesForWeightPerSide ==
    /\ lastOp = "init"
    /\ loaded' = platesForWeightPerSide(target)
    /\ lastOp' = "platesForWeightPerSide"
    /\ UNCHANGED <<ex, sets, suggestion, raw, day, migrated, again, resolved,
                   heap, input, current, edits, target, bar, total,
                   appVars, pageVars>>

\* the total of the counts given, or of the counts just decomposed
PlatesPerSideToTotal ==
    /\ total = Undefined
    /\ total' = Some(platesPerSideToTotal(loaded, bar))
    /\ lastOp' = IF lastOp = "platesForWeightPerSide"
                 THEN "platesPerSideToTotal(platesForWeightPerSide)"
                 ELSE "platesPerSideToTotal"
    /\ UNCHANGED <<ex, sets, suggestion, raw, day, migrated, again, resolved,
                   heap, input, current, edits, target, loaded, bar,
                   appVars, pageVars>>

NextPlates == PlatesForWeightPerSide \/ PlatesPerSideToTotal

SpecPlates == InitPlates /\ [][NextPlates]_vars

\* --------------------------- App: state handlers -----------------------

\* uid(prefix); the n-th id handed out
uid(prefix, n) == prefix \o "_" \o ToString(n)

\* loadState: migrate what localStorage held, default a missing status
loadState(stored) ==
    LET m == ensureV2State(stored)
    IN  [m EXCEPT !.sessions =
            [i \in DOMAIN m.sessions |->
                IF m.sessions[i].status = Null
                THEN [m.sessions[i] EXCEPT !.status = "active"]
                ELSE m.sessions[i]]]

LibraryItems(st) ==
    IF IsDefined(st.workoutLibrary) THEN Val(st.workoutLibrary) ELSE <<>>

LibraryIdsOf(st) == {LibraryItems(st)[i].id : i \in DOMAIN LibraryItems(st)}

\* state.settings?.activeWeek ?? "week1"
settingsWeek(st) == ActiveWeekOf(st)

updateSplitDay(st, week, d, workoutId) ==
    LET v2 == ensureV2State(st)
        split == Val(v2.split)
    IN  [v2 EXCEPT !.split =
            Some([split EXCEPT ![week] =
                    [days |-> [split[week].days EXCEPT ![d] = workoutId]]])]

setActiveWeek(st, w) ==
    LET v2 == ensureV2State(st)
    IN  [v2 EXCEPT !.settings = Some([Val(v2.settings) EXCEPT !.activeWeek = w])]

createWorkout(st, id) ==
    LET v2 == ensureV2State(st)
        w == [id |-> id, name |-> "New Workout", exerciseIds |-> <<>>]
    IN  [v2 EXCEPT !.workoutLibrary = Some(<<w>> \o LibraryItems(v2))]

ClearDays(days, workoutId) ==
    [d \in DOMAIN days |->
        IF d \in Range(ALL_DAYS) /\ days[d] = workoutId THEN Null ELSE days[d]]

ClearSlotsWeek1Only(split, workoutId) ==
    [week1 |-> [days |-> ClearDays(split.week1.days, workoutId)],
     week2 |-> [days |-> split.week2.days]]

ClearSlots(split, workoutId) ==
    [week1 |-> [days |-> ClearDays(split.week1.days, workoutId)],
     week2 |-> [days |-> ClearDays(split.week2.days, workoutId)]]

deleteWorkout(st, workoutId) ==
    LET v2 == ensureV2State(st)
        nextLib == SelectSeq(LibraryItems(v2), LAMBDA w : w.id # workoutId)
    IN  [v2 EXCEPT !.workoutLibrary = Some(nextLib),
                   !.split = Some(ClearSlots(Val(v2.split), workoutId))]

\* --------------------------- App: schedule editing ---------------------

\* what localStorage can hold when the app starts: documents written by
\* the legacy version (no v2 fields), with or without recorded sessions
StoredTemplates ==
    <<[id |-> "w_a", name |-> "A", day |-> "Monday", exerciseIds |-> <<"t_x">>],
      [id |-> "w_b", name |-> "B", day |-> "Wednesday", exerciseIds |-> <<"t_y">>]>>

StoredSession(id, workoutId, status) ==
    [id |-> id, workoutId |-> workoutId, dateISO |-> "2025-01-01",
     sets |-> <<>>, status |-> status,
     startedAt |-> Undefined, endedAt |-> Undefined]

StoredDocs ==
    {[exercises |-> <<>>, workouts |-> StoredTemplates,
      workoutLibrary |-> Undefined, split |-> Undefined,
      settings |-> Undefined, sessions |-> ss] :
        ss \in {<<>>, <<StoredSession("sess_old", "w_a", "completed")>>}}

HomeScreen == [name |-> "home", id |-> Null]

InitSchedule ==
    /\ lastOp = "init"
    /\ \E stored \in StoredDocs : state = loadState(stored)
    /\ tab = "Today"
    /\ screen = HomeScreen
    /\ confirmState = Undefined
    /\ addModalOpen = FALSE
    /\ draft = Undefined
    /\ uidCounter = 0
    /\ IdleSuggest
    /\ IdleMigrate
    /\ IdleHeap
    /\ IdlePlates
    /\ IdlePage

\* BottomNav button; SessionView is rendered on the Today tab only, and its
\* local state (addModalOpen, draft) is lost when it is unmounted
SetTab(t) ==
    /\ tab' = t
    /\ addModalOpen' = IF t = "Today" THEN addModalOpen ELSE FALSE
    /\ draft' = IF t = "Today" THEN draft ELSE Undefined
    /\ lastOp' = "setTab"
    /\ UNCHANGED <<pureVars, pageVars, state, screen, confirmState, uidCounter>>

\* SplitEditor select on the Split tab: always edits the active week
UpdateSplitDay(d, workoutId) ==
    /\ tab = "Split"
    /\ state' = updateSplitDay(state, settingsWeek(state), d, workoutId)
    /\ lastOp' = "updateSplitDay"
    /\ UNCHANGED <<pureVars, pageVars, tab, screen, confirmState, addModalOpen, draft,
                   uidCounter>>

\* Week 1 / Week 2 buttons (Split tab and Settings home)
SetActiveWeek(w) ==
    /\ \/ tab = "Split"
       \/ tab = "Settings" /\ screen.name \notin {"workoutEditor", "exercise"}
    /\ state' = setActiveWeek(state, w)
    /\ lastOp' = "setActiveWeek"
    /\ UNCHANGED <<pureVars, pageVars, tab, screen, confirmState, addModalOpen, draft,
                   uidCounter>>

\* WorkoutLibrary "+ New workout"
CreateWorkout ==
    /\ tab = "Split"
    /\ uidCounter < MaxUid
    /\ LET id == uid("wk", uidCounter + 1)
       IN  /\ state' = createWorkout(state, id)
           /\ screen' = [name |-> "workoutEditor", id |-> id]
    /\ tab' = "Settings"
    /\ uidCounter' = uidCounter + 1
    /\ lastOp' = "createWorkout"
    /\ UNCHANGED <<pureVars, pageVars, confirmState, addModalOpen, draft>>

\* onBack of the workout editor and of the exercise settings view
BackHome ==
    /\ tab = "Settings"
    /\ screen.name \in {"workoutEditor", "exercise"}
    /\ screen' = HomeScreen
    /\ lastOp' = "back"
    /\ UNCHANGED <<pureVars, pageVars, state, tab, confirmState, addModalOpen, draft,
                   uidCounter>>

\* WorkoutLibrary "Delete": only asks for confirmation
RequestDeleteWorkout(workoutId) ==
    /\ tab = "Split"
    /\ workoutId \in LibraryIdsOf(state)
    /\ confirmState' = Some([op |-> "deleteWorkout", id |-> workoutId, sub |-> Null])
    /\ lastOp' = "requestConfirm"
    /\ UNCHANGED <<pureVars, pageVars, state, tab, screen, addModalOpen, draft, uidCounter>>

\* ConfirmDialog confirm button: onConfirm of the delete request, then close
ConfirmDeleteWorkout ==
    /\ IsDefined(confirmState)
    /\ Val(confirmState).op = "deleteWorkout"
    /\ state' = deleteWorkout(state, Val(confirmState).id)
    /\ confirmState' = Undefined
    /\ lastOp' = "confirmDeleteWorkout"
    /\ UNCHANGED <<pureVars, pageVars, tab, screen, addModalOpen, draft, uidCounter>>

\* ConfirmDialog cancel button or backdrop
CancelConfirm ==
    /\ IsDefined(confirmState)
    /\ confirmState' = Undefined
    /\ lastOp' = "cancelConfirm"
    /\ UNCHANGED <<pureVars, pageVars, state, tab, screen, addModalOpen, draft, uidCounter>>

NextSchedule ==
    \/ \E t \in {"Today", "Split", "History", "Settings"} : SetTab(t)
    \/ \E d \in {"Monday", "Wednesday"}, w \in LibraryIdsOf(state) \cup {Null} : UpdateSplitDay(d, w)
    \/ \E w \in {"week1", "week2"} : SetActiveWeek(w)
    \/ CreateWorkout
    \/ BackHome
    \/ \E w \in LibraryIdsOf(state) : RequestDeleteWorkout(w)
    \/ ConfirmDeleteWorkout
    \/ CancelConfirm

SpecSchedule == InitSchedule /\ [][NextSchedule]_vars

\* --------------------------- App: sessions ----------------------------

\* the exercise map of App (exercisesById.get)
exercisesById(st, exerciseId) ==
    Find(st.exercises, {i \in DOMAIN st.exercises : st.exercises[i].id = exerciseId})

getWorkoutExerciseIds(st, workoutId) ==
    LET inLib == LibraryFind(st, workoutId)
        legacy == Find(st.workouts,
                       {i \in DOMAIN st.workouts : st.workouts[i].id = workoutId})
    IN  IF IsDefined(inLib) THEN Val(inLib).exerciseIds
        ELSE IF IsDefined(legacy) THEN Val(legacy).exerciseIds ELSE <<>>

\* the session the Today tab shows, if any
activeSession(st, scr) ==
    IF scr.name # "session" THEN Undefined
    ELSE Find(st.sessions, {i \in DOMAIN st.sessions : st.sessions[i].id = scr.id})

\* a lookup comparing the session's own id with the workout id
ExistingSessionById(st, workoutId, dateISO) ==
    Find(st.sessions,
         {i \in DOMAIN st.sessions :
             /\ st.sessions[i].id = workoutId
             /\ st.sessions[i].dateISO = dateISO
             /\ st.sessions[i].status = "active"})

\* the active session of a workout on a date, if any
ExistingSession(st, workoutId, dateISO) ==
    Find(st.sessions,
         {i \in DOMAIN st.sessions :
             /\ st.sessions[i].workoutId = workoutId
             /\ st.sessions[i].dateISO = dateISO
             /\ st.sessions[i].status = "active"})

\* the state update of openSession when no active session exists
openSession(st, workoutId, dateISO, id, now) ==
    LET next == [id |-> id, workoutId |-> workoutId, dateISO |-> dateISO,
                 sets |-> <<>>, status |-> "active",
                 startedAt |-> Some(now), endedAt |-> Undefined]
    IN  [st EXCEPT !.sessions = <<next>> \o st.sessions]

endSession(st, sessionId, status, now) ==
    [st EXCEPT !.sessions =
        [i \in DOMAIN st.sessions |->
            IF st.sessions[i].id = sessionId
            THEN [st.sessions[i] EXCEPT !.status = status, !.endedAt = Some(now)]
            ELSE st.sessions[i]]]

\* an addSet that puts the new set after the sets of the session
addSetAppend(st, sessionId, setEntry, id, now) ==
    [st EXCEPT !.sessions =
        [i \in DOMAIN st.sessions |->
            IF st.sessions[i].id # sessionId THEN st.sessions[i]
            ELSE [st.sessions[i] EXCEPT !.sets =
                    Append(st.sessions[i].sets,
                           [setEntry EXCEPT !.id = id, !.createdAt = now])]]]

addSet(st, sessionId, setEntry, id, now) ==
    [st EXCEPT !.sessions =
        [i \in DOMAIN st.sessions |->
            IF st.sessions[i].id # sessionId THEN st.sessions[i]
            ELSE [st.sessions[i] EXCEPT !.sets =
                    <<[setEntry EXCEPT !.id = id, !.createdAt = now]>>
                      \o st.sessions[i].sets]]]

deleteSet(st, sessionId, setId) ==
    [st EXCEPT !.sessions =
        [i \in DOMAIN st.sessions |->
            IF st.sessions[i].id = sessionId
            THEN [st.sessions[i] EXCEPT !.sets =
                    SelectSeq(st.sessions[i].sets, LAMBDA x : x.id # setId)]
            ELSE st.sessions[i]]]

\* updateSet with a patch of the clean reps
updateSet(st, sessionId, setId, cleanReps) ==
    [st EXCEPT !.sessions =
        [i \in DOMAIN st.sessions |->
            IF st.sessions[i].id # sessionId THEN st.sessions[i]
            ELSE [st.sessions[i] EXCEPT !.sets =
                    [k \in DOMAIN st.sessions[i].sets |->
                        IF st.sessions[i].sets[k].id = setId
                        THEN [st.sessions[i].sets[k] EXCEPT !.cleanReps = cleanReps]
                        ELSE st.sessions[i].sets[k]]]]]

\* SessionView: the sets of an exercise
SetsOf(session, exerciseId) ==
    SelectSeq(session.sets, LAMBDA x : x.exerciseId = exerciseId)

\* the draft openAddFor builds for an exercise: weights are copied from the
\* first set of the exercise in the array, then from the parent of a drop set
openAddFor(session, e, kind, parentSetId) ==
    LET barbell == e.equipment = "barbell"
        mine == SetsOf(session, e.id)
        w0 == IF mine # <<>>
              THEN IF barbell /\ IsDefined(mine[1].barbellPlatesPerSide)
                   THEN [weight |-> Undefined,
                         plates |-> mine[1].barbellPlatesPerSide]
                   ELSE [weight |-> mine[1].weight, plates |-> Undefined]
              ELSE IF barbell
                   THEN [weight |-> Undefined, plates |-> Some(emptyPlateCounts)]
                   ELSE [weight |-> Some(0), plates |-> Undefined]
        parent == IF kind = "drop" /\ IsDefined(parentSetId)
                  THEN Find(session.sets,
                            {i \in DOMAIN session.sets :
                                session.sets[i].id = Val(parentSetId)})
                  ELSE Undefined
        w1 == IF ~IsDefined(parent) THEN w0
              ELSE IF barbell /\ IsDefined(Val(parent).barbellPlatesPerSide)
              THEN [w0 EXCEPT !.plates = Val(parent).barbellPlatesPerSide]
              ELSE [w0 EXCEPT !.weight = Val(parent).weight]
    IN  [exerciseId |-> e.id, equipment |-> e.equipment, cleanReps |-> 8,
         dirtyReps |-> 0, kind |-> kind, parentSetId |-> parentSetId,
         weight |-> w1.weight, barbellPlatesPerSide |-> w1.plates]

\* the entry addNow hands to onAddSet (id and createdAt are set by addSet)
DraftEntry(d, e) ==
    [id |-> "", createdAt |-> 0,
     exerciseId |-> d.exerciseId, kind |-> d.kind,
     parentSetId |-> IF d.kind = "drop" THEN d.parentSetId ELSE Undefined,
     weight |-> IF e.equipment = "barbell" THEN Undefined
                ELSE IF IsDefined(d.weight) THEN d.weight ELSE Some(0),
     barbellPlatesPerSide |->
        IF e.equipment = "barbell" THEN d.barbellPlatesPerSide ELSE Undefined,
     cleanReps |-> d.cleanReps, dirtyReps |-> d.dirtyReps, notes |-> ""]

\* todayDayName() and todayISO while the app is in use
Today == "Monday"

todayISO == "2025-01-06"

\* what localStorage can hold when the app starts: one exercise, the two
\* legacy templates, and possibly a session completed on an earlier date
SessionDocs ==
    {[exercises |-> <<mkEx("t_x", "X", eq)>>, workouts |-> StoredTemplates,
      workoutLibrary |-> Undefined, split |-> Undefined,
      settings |-> Undefined, sessions |-> ss] :
        eq \in {"db", "barbell"},
        ss \in {<<>>, <<StoredSession("sess_old", "w_a", "completed")>>}}

\* clean reps typed into the add-set form or into a set row
EditReps == {8, 10}

InitSession ==
    /\ lastOp = "init"
    /\ \E stored \in SessionDocs : state = loadState(stored)
    /\ tab = "Today"
    /\ screen = HomeScreen
    /\ confirmState = Undefined
    /\ addModalOpen = FALSE
    /\ draft = Undefined
    /\ uidCounter = 0
    /\ IdleSuggest
    /\ IdleMigrate
    /\ IdleHeap
    /\ IdlePlates
    /\ IdlePage

\* SessionView is rendered
SessionShown == tab = "Today" /\ IsDefined(activeSession(state, screen))

ShownSession == Val(activeSession(state, screen))

\* the exercises SessionView lists for the shown session
ShownExercises ==
    {e \in Range(getWorkoutExerciseIds(state, ShownSession.workoutId)) :
        IsDefined(exercisesById(state, e))}

\* Start / Resume on the Today tab: openSession(todaysWorkoutId)
OpenSession ==
    /\ tab = "Today"
    /\ ~IsDefined(activeSession(state, screen))
    /\ LET r == resolveWorkoutForDay(state, Today)
           existing == ExistingSession(state, r.workoutId, todayISO)
       IN  /\ IsDefined(r.workout)
           /\ r.workoutId # Null
           /\ IF IsDefined(existing)
              THEN /\ screen' = [name |-> "session", id |-> Val(existing).id]
                   /\ UNCHANGED <<state, uidCounter>>
              ELSE /\ uidCounter < MaxIds
                   /\ state' = openSession(state, r.workoutId, todayISO,
                                           uid("sess", uidCounter + 1),
                                           uidCounter + 1)
                   /\ screen' = [name |-> "session",
                                 id |-> uid("sess", uidCounter + 1)]
                   /\ uidCounter' = uidCounter + 1
    /\ tab' = "Today"
    /\ lastOp' = "openSession"
    /\ UNCHANGED <<pureVars, pageVars, confirmState, addModalOpen, draft>>

\* a row of HistoryView
OpenHistorySession(sessionId) ==
    /\ tab = "History"
    /\ \E i \in DOMAIN state.sessions : state.sessions[i].id = sessionId
    /\ screen' = [name |-> "session", id |-> sessionId]
    /\ tab' = "Today"
    /\ lastOp' = "openHistorySession"
    /\ UNCHANGED <<pureVars, pageVars, state, confirmState, addModalOpen, draft, uidCounter>>

\* "Settings" of an expanded exercise: leaves the Today tab
OpenExercise(exerciseId) ==
    /\ SessionShown
    /\ exerciseId \in ShownExercises
    /\ screen' = [name |-> "exercise", id |-> exerciseId]
    /\ tab' = "Settings"
    /\ addModalOpen' = FALSE
    /\ draft' = Undefined
    /\ lastOp' = "openExercise"
    /\ UNCHANGED <<pureVars, pageVars, state, confirmState, uidCounter>>

\* "End workout" (rendered while the session is active): asks to confirm
RequestEndSession ==
    /\ SessionShown
    /\ ShownSession.status = "active"
    /\ confirmState' = Some([op |-> "endSession", id |-> ShownSession.id,
                             sub |-> Null])
    /\ lastOp' = "requestConfirm"
    /\ UNCHANGED <<pureVars, pageVars, state, tab, screen, addModalOpen, draft, uidCounter>>

\* ConfirmDialog confirm button: endSession(sessionId, "completed"), then close
ConfirmEndSession ==
    /\ IsDefined(confirmState)
    /\ Val(confirmState).op = "endSession"
    /\ state' = endSession(state, Val(confirmState).id, "completed", uidCounter)
    /\ confirmState' = Undefined
    /\ lastOp' = "confirmEndSession"
    /\ UNCHANGED <<pureVars, pageVars, tab, screen, addModalOpen, draft, uidCounter>>

\* "+ Set" / "+ Drop" of an exercise (disabled unless the session is active)
OpenAddFor(exerciseId, kind) ==
    /\ SessionShown
    /\ ShownSession.status = "active"
    /\ exerciseId \in ShownExercises
    /\ kind = "drop" => SetsOf(ShownSession, exerciseId) # <<>>
    /\ LET \* sets[sets.length - 1] of setsForExercise: the set created last
           ss == SetsOf(ShownSession, exerciseId)
           last == ss[CHOOSE i \in DOMAIN ss :
                         \A j \in DOMAIN ss : ss[j].createdAt <= ss[i].createdAt]
       IN  draft' = Some(openAddFor(ShownSession,
                           Val(exercisesById(state, exerciseId)), kind,
                           IF kind = "drop" THEN Some(last.id) ELSE Undefined))
    /\ addModalOpen' = TRUE
    /\ lastOp' = "openAddFor"
    /\ UNCHANGED <<pureVars, pageVars, state, tab, screen, confirmState, uidCounter>>

\* the clean-reps input of AddSetForm
EditDraft(reps) ==
    /\ SessionShown
    /\ addModalOpen
    /\ IsDefined(draft)
    /\ IsDefined(exercisesById(state, Val(draft).exerciseId))
    /\ draft' = Some([Val(draft) EXCEPT !.cleanReps = reps])
    /\ lastOp' = "editDraft"
    /\ UNCHANGED <<pureVars, pageVars, state, tab, screen, confirmState, addModalOpen,
                   uidCounter>>

\* Close button or backdrop of the add-set modal
CloseAddModal ==
    /\ SessionShown
    /\ addModalOpen
    /\ addModalOpen' = FALSE
    /\ lastOp' = "closeAddModal"
    /\ UNCHANGED <<pureVars, pageVars, state, tab, screen, confirmState, draft, uidCounter>>

\* "Add" of AddSetForm: addNow, which calls addSet and closes the modal
AddNow ==
    /\ SessionShown
    /\ addModalOpen
    /\ IsDefined(draft)
    /\ IsDefined(exercisesById(state, Val(draft).exerciseId))
    /\ uidCounter < MaxIds
    /\ state' = addSet(state, ShownSession.id,
                       DraftEntry(Val(draft),
                                  Val(exercisesById(state, Val(draft).exerciseId))),
                       uid("set", uidCounter + 1), uidCounter + 1)
    /\ uidCounter' = uidCounter + 1
    /\ addModalOpen' = FALSE
    /\ draft' = Undefined
    /\ lastOp' = "addNow"
    /\ UNCHANGED <<pureVars, pageVars, tab, screen, confirmState>>

\* "Delete" of a set row (disabled unless the session is active)
RequestDeleteSet(setId) ==
    /\ SessionShown
    /\ ShownSession.status = "active"
    /\ \E i \in DOMAIN ShownSession.sets :
          /\ ShownSession.sets[i].id = setId
          /\ ShownSession.sets[i].exerciseId \in ShownExercises
    /\ confirmState' = Some([op |-> "deleteSet", id |-> ShownSession.id,
                             sub |-> setId])
    /\ lastOp' = "requestConfirm"
    /\ UNCHANGED <<pureVars, pageVars, state, tab, screen, addModalOpen, draft, uidCounter>>

ConfirmDeleteSet ==
    /\ IsDefined(confirmState)
    /\ Val(confirmState).op = "deleteSet"
    /\ state' = deleteSet(state, Val(confirmState).id, Val(confirmState).sub)
    /\ confirmState' = Undefined
    /\ lastOp' = "confirmDeleteSet"
    /\ UNCHANGED <<pureVars, pageVars, tab, screen, addModalOpen, draft, uidCounter>>

\* the clean-reps input of a set row (never disabled)
UpdateSet(setId, reps) ==
    /\ SessionShown
    /\ \E i \in DOMAIN ShownSession.sets :
          /\ ShownSession.sets[i].id = setId
          /\ ShownSession.sets[i].exerciseId \in ShownExercises
    /\ state' = updateSet(state, ShownSession.id, setId, reps)
    /\ lastOp' = "updateSet"
    /\ UNCHANGED <<pureVars, pageVars, tab, screen, confirmState, addModalOpen, draft,
                   uidCounter>>

NextSession ==
    \/ \E t \in {"Today", "Split", "History", "Settings"} : SetTab(t)
    \/ OpenSession
    \/ \E i \in DOMAIN state.sessions : OpenHistorySession(state.sessions[i].id)
    \/ \E e \in {"t_x"} : OpenExercise(e)
    \/ BackHome
    \/ RequestEndSession
    \/ ConfirmEndSession
    \/ CancelConfirm
    \/ \E e \in {"t_x"}, kind \in {"normal", "drop"} : OpenAddFor(e, kind)
    \/ \E reps \in EditReps : EditDraft(reps)
    \/ CloseAddModal
    \/ AddNow
    \/ \E n \in 1..MaxIds : RequestDeleteSet(uid("set", n))
    \/ ConfirmDeleteSet
    \/ \E n \in 1..MaxIds, reps \in EditReps : UpdateSet(uid("set", n), reps)

SpecSession == InitSession /\ [][NextSession]_vars

\* --------------------------- App: backup and reset --------------------

\* importJson.  doc is what safeJsonParse returned for the text of the
\* file: Undefined for null (the text does not parse), else an object whose
\* fields are each present or absent.  alert is the message shown.
importJson(st, doc) ==
    IF \/ ~IsDefined(doc)
       \/ ~IsDefined(Val(doc).exercises)
       \/ ~IsDefined(Val(doc).workouts)
       \/ ~IsDefined(Val(doc).sessions)
    THEN [state |-> st, alert |-> "Invalid backup JSON."]
    ELSE LET parsed == Val(doc)
             m == ensureV2State([exercises |-> Val(parsed.exercises),
                                 workouts |-> Val(parsed.workouts),
                                 workoutLibrary |-> parsed.workoutLibrary,
                                 split |-> parsed.split,
                                 settings |-> parsed.settings,
                                 sessions |-> Val(parsed.sessions)])
         IN  [state |-> [m EXCEPT !.sessions =
                           [i \in DOMAIN m.sessions |->
                               IF m.sessions[i].status = Null
                               THEN [m.sessions[i] EXCEPT !.status = "active"]
                               ELSE m.sessions[i]]],
              alert |-> "Imported."]

\* a reset that also empties the workout library
resetHistoryAndLibrary(st) ==
    [st EXCEPT !.sessions = <<>>, !.workoutLibrary = Some(<<>>)]

\* onConfirm of resetHistory: setState((st) => ({ ...st, sessions: [] }))
resetHistory(st) == [st EXCEPT !.sessions = <<>>]

\* what a backup file can hold: text that does not parse; a legacy
\* snapshot; a snapshot as exportJson writes it (legacy and v2 fields); a
\* v2 snapshot without the legacy workouts list; snapshots lacking one of
\* settings, sessions; sessions written before status existed
BackupDocs ==
    LET library ==
          <<[id |-> "w_b", name |-> "B", exerciseIds |-> <<"t_x">>],
            [id |-> "w_c", name |-> "C", exerciseIds |-> <<>>]>>
        split ==
          [week1 |-> [days |-> [emptySplitWeek.days EXCEPT !["Monday"] = "w_c"]],
           week2 |-> [days |-> [emptySplitWeek.days EXCEPT !["Tuesday"] = "w_b"]]]
        settings == [activeWeek |-> "week2", keepScreenAwake |-> Undefined]
        exercises == <<mkEx("t_x", "X", "db"), mkEx("t_z", "Z", "machine")>>
        v2 == [exercises |-> Some(exercises), workouts |-> Some(StoredTemplates),
               workoutLibrary |-> Some(library), split |-> Some(split),
               settings |-> Some(settings),
               sessions |-> Some(<<StoredSession("sess_bak", "w_b", "completed")>>)]
        legacy == [v2 EXCEPT !.workoutLibrary = Undefined, !.split = Undefined,
                             !.settings = Undefined]
    IN  {Undefined, Some(legacy), Some(v2),
         Some([v2 EXCEPT !.workouts = Undefined]),
         Some([v2 EXCEPT !.settings = Undefined]),
         Some([v2 EXCEPT !.sessions = Undefined]),
         Some([legacy EXCEPT !.sessions =
                 Some(<<StoredSession("sess_bak", "w_a", Null)>>)])}

\* "Import JSON" of Quick Actions (Today tab, no session shown)
ImportJson(doc) ==
    /\ tab = "Today"
    /\ ~IsDefined(activeSession(state, screen))
    /\ state' = importJson(state, doc).state
    /\ lastOp' = "importJson"
    /\ UNCHANGED <<pureVars, pageVars, tab, screen, confirmState, addModalOpen, draft,
                   uidCounter>>

\* "Reset history" of the Danger Zone card (Settings home): asks to confirm
RequestResetHistory ==
    /\ tab = "Settings"
    /\ screen.name \notin {"workoutEditor", "exercise"}
    /\ confirmState' = Some([op |-> "resetHistory", id |-> Null, sub |-> Null])
    /\ lastOp' = "requestConfirm"
    /\ UNCHANGED <<pureVars, pageVars, state, tab, screen, addModalOpen, draft, uidCounter>>

\* ConfirmDialog confirm button: onConfirm of the reset request, then close
ConfirmResetHistory ==
    /\ IsDefined(confirmState)
    /\ Val(confirmState).op = "resetHistory"
    /\ state' = resetHistory(state)
    /\ screen' = HomeScreen
    /\ tab' = "Today"
    /\ confirmState' = Undefined
    /\ lastOp' = "confirmResetHistory"
    /\ UNCHANGED <<pureVars, pageVars, addModalOpen, draft, uidCounter>>

NextBackup ==
    \/ \E t \in {"Today", "Split", "History", "Settings"} : SetTab(t)
    \/ \E w \in LibraryIdsOf(state) \cup {Null} : UpdateSplitDay("Monday", w)
    \/ \E w \in {"week1", "week2"} : SetActiveWeek(w)
    \/ \E doc \in BackupDocs : ImportJson(doc)
    \/ RequestResetHistory
    \/ ConfirmResetHistory
    \/ CancelConfirm

SpecBackup == InitSession /\ [][NextBackup]_vars

\* --------------------------- SplitEditor: values -----------------------

\* JavaScript values as JSON.parse builds them.  A string keeps its leading
\* and trailing blanks apart from its body, so that trim() is computed.
JsNull == [type |-> "null"]

JsNumber(n) == [type |-> "number", num |-> n]

JsPadded(lead, body, trail) ==
    [type |-> "string", lead |-> lead, body |-> body, trail |-> trail]

JsString(body) == JsPadded(0, body, 0)

JsArray(items) == [type |-> "array", items |-> items]

\* keys in insertion order, vals[i] the value of keys[i]
JsObject(keys, vals) == [type |-> "object", keys |-> keys, vals |-> vals]

\* The text of the import box is a record: label stands for its characters,
\* parsed is what JSON.parse returns for them (Undefined when it throws).

isPlainObject(v) == v.type = "object"

Includes(keys, k) == \E i \in DOMAIN keys : keys[i] = k

Get(o, k) == o.vals[CHOOSE i \in DOMAIN o.keys : o.keys[i] = k]

\* String.prototype.trim
trim(str) == [str EXCEPT !.lead = 0, !.trail = 0]

RECURSIVE Blanks(_)
Blanks(n) == IF n = 0 THEN "" ELSE " " \o Blanks(n - 1)

\* the characters of a string value, as a template literal inserts them
Chars(str) == Blanks(str.lead) \o str.body \o Blanks(str.trail)

\* ALL_DAYS.includes(v)
IsDayName(v) ==
    /\ v.type = "string"
    /\ v.lead = 0
    /\ v.trail = 0
    /\ v.body \in Range(ALL_DAYS)

\* --------------------------- SplitEditor: import -----------------------

resetImportState(p) ==
    [p EXCEPT !.importText = EmptyText, !.importError = Undefined,
              !.importReady = FALSE, !.importWeeks = Undefined]

\* an edit that replaces the text and keeps the outcome of the validation
handleImportChangeKeepReady(p, value) == [p EXCEPT !.importText = value]

handleImportChange(p, value) ==
    [p EXCEPT !.importText = value, !.importError = Undefined,
              !.importReady = FALSE, !.importWeeks = Undefined]

\* outcome of validateImport: what it leaves in the three hooks
Rejected(message) ==
    [importError |-> Some(message), importReady |-> FALSE,
     importWeeks |-> Undefined]

WeekNo(i) == "Week " \o ToString(i)

\* the checks of one day entry; "" when the entry passes
DayError(d, i, workoutIds, seenDayNames) ==
    IF ~isPlainObject(d) THEN WeekNo(i) \o " contains an invalid day."
    ELSE IF Len(d.keys) # 2 \/ ~Includes(d.keys, "name")
              \/ ~Includes(d.keys, "workoutId")
    THEN WeekNo(i) \o " day entries must include only name and workoutId."
    ELSE LET dayName == Get(d, "name")
             workoutId == Get(d, "workoutId")
         IN  IF ~IsDayName(dayName)
             THEN WeekNo(i) \o " contains an invalid day name."
             ELSE IF dayName \in seenDayNames
             THEN WeekNo(i) \o " contains duplicate day '" \o Chars(dayName) \o "'."
             ELSE IF workoutId.type # "null" /\ workoutId.type # "string"
             THEN WeekNo(i) \o " day '" \o Chars(dayName)
                    \o "' has an invalid workoutId."
             ELSE IF workoutId.type = "string" /\ workoutId \notin workoutIds
             THEN WeekNo(i) \o " day '" \o Chars(dayName)
                    \o "' references missing workout '" \o Chars(workoutId) \o "'."
             ELSE ""

\* the loop over the days of week i, from entry k on
RECURSIVE DaysLoop(_, _, _, _, _, _)
DaysLoop(days, k, i, workoutIds, seenDayNames, normalizedDays) ==
    IF k > Len(days) THEN [error |-> "", days |-> normalizedDays]
    ELSE LET e == DayError(days[k], i, workoutIds, seenDayNames)
         IN  IF e # "" THEN [error |-> e, days |-> <<>>]
             ELSE DaysLoop(days, k + 1, i, workoutIds,
                           seenDayNames \cup {Get(days[k], "name")},
                           Append(normalizedDays,
                                  [name |-> Get(days[k], "name"),
                                   workoutId |-> Get(days[k], "workoutId")]))

orderedDays(normalizedDays) ==
    [j \in DOMAIN ALL_DAYS |->
        LET found == Find(normalizedDays,
                          {k \in DOMAIN normalizedDays :
                              normalizedDays[k].name = JsString(ALL_DAYS[j])})
        IN  IF IsDefined(found) THEN Val(found)
            ELSE [name |-> JsString(ALL_DAYS[j]), workoutId |-> JsNull]]

\* a shorter days value is let through
DaysCountOkAtMost(days) == days.type = "array" /\ Len(days.items) <= 7

DaysCountOk(days) == days.type = "array" /\ Len(days.items) = 7

\* the checks of week i before its days are walked; "" when they pass
WeekError(week, i, seenWeekIds) ==
    IF ~isPlainObject(week) THEN WeekNo(i) \o " must be an object."
    ELSE IF Len(week.keys) # 3 \/ ~Includes(week.keys, "id")
              \/ ~Includes(week.keys, "name") \/ ~Includes(week.keys, "days")
    THEN WeekNo(i) \o " must include only id, name, and days."
    ELSE LET id == Get(week, "id")
             name == Get(week, "name")
             days == Get(week, "days")
         IN  IF id.type # "string" \/ trim(id).body = ""
             THEN WeekNo(i) \o " has an invalid id."
             ELSE IF id \in seenWeekIds
             THEN "Duplicate week id '" \o Chars(id) \o "' found."
             ELSE IF name.type # "string" \/ trim(name).body = ""
             THEN WeekNo(i) \o " has an invalid name."
             ELSE IF ~DaysCountOk(days)
             THEN WeekNo(i) \o " must have exactly 7 days."
             ELSE ""

\* the loop over weeksValue, from week i on
RECURSIVE WeeksLoop(_, _, _, _, _)
WeeksLoop(weeksValue, i, workoutIds, seenWeekIds, normalizedWeeks) ==
    IF i > Len(weeksValue)
    THEN [importError |-> Undefined, importReady |-> TRUE,
          importWeeks |-> Some(normalizedWeeks)]
    ELSE LET week == weeksValue[i]
             e == WeekError(week, i, seenWeekIds)
         IN  IF e # "" THEN Rejected(e)
             ELSE LET walked == DaysLoop(Get(week, "days").items, 1, i,
                                         workoutIds, {}, <<>>)
                  IN  IF walked.error # "" THEN Rejected(walked.error)
                      ELSE WeeksLoop(weeksValue, i + 1, workoutIds,
                                     seenWeekIds \cup {Get(week, "id")},
                                     Append(normalizedWeeks,
                                            [id |-> Get(week, "id"),
                                             name |-> trim(Get(week, "name")),
                                             days |-> orderedDays(walked.days)]))

PageLibrary(p) ==
    IF IsDefined(p.state.workoutLibrary) THEN Val(p.state.workoutLibrary) ELSE <<>>

validateImport(importText, library) ==
    LET parsed == importText.parsed
        workoutIds == {library[i].id : i \in DOMAIN library}
    IN  IF ~IsDefined(parsed)
        THEN Rejected("Invalid JSON. Please check formatting.")
        ELSE IF ~isPlainObject(Val(parsed))
        THEN Rejected("Top-level JSON must be an object.")
        ELSE IF Val(parsed).keys # <<"weeks">>
        THEN Rejected("JSON must contain only a top-level 'weeks' array.")
        ELSE LET weeksValue == Get(Val(parsed), "weeks")
             IN  IF weeksValue.type # "array" \/ Len(weeksValue.items) = 0
                 THEN Rejected("'weeks' must be a non-empty array.")
                 ELSE WeeksLoop(weeksValue.items, 1, workoutIds, {}, <<>>)

\* the owner's onRequestImportSplit: the imported weeks replace the split
onRequestImportSplit(st, weeks) == [st EXCEPT !.split = Some([weeks |-> weeks])]

\* --------------------- SplitEditor: import on bounded inputs -------------

\* the library and the split the page is given
PageStates ==
    LET library ==
          <<[id |-> JsString("w_a"), name |-> JsString("A"), exerciseIds |-> <<>>],
            [id |-> JsString("w_b"), name |-> JsString("B"), exerciseIds |-> <<>>]>>
        week ==
          [id |-> JsString("w_0"), name |-> JsString("Week"),
           days |-> [j \in DOMAIN ALL_DAYS |->
                       [name |-> JsString(ALL_DAYS[j]),
                        workoutId |-> IF j = 1 THEN JsString("w_a") ELSE JsNull]]]
    IN  {[exercises |-> <<>>, workoutLibrary |-> Some(library), split |-> sp,
          sessions |-> <<StoredSession("sess_old", "w_a", "completed")>>] :
            sp \in {Undefined, Some([weeks |-> <<week>>])}}

DayEntry(name, workoutId) ==
    JsObject(<<"name", "workoutId">>, <<name, workoutId>>)

SplitDoc(weeks) == JsObject(<<"weeks">>, <<JsArray(weeks)>>)

\* state.split?.weeks || []
PageWeeks(p) ==
    IF IsDefined(p.state.split) THEN Val(p.state.split).weeks ELSE <<>>

\* an export that writes rest for every day
exportTextAllRest(weeks) ==
    [label |-> "exported",
     parsed |->
       Some(SplitDoc([i \in DOMAIN weeks |->
              JsObject(<<"id", "name", "days">>,
                       <<weeks[i].id, weeks[i].name,
                         JsArray([j \in DOMAIN ALL_DAYS |->
                                    DayEntry(JsString(ALL_DAYS[j]), JsNull)])>>)]))]

\* exportText: JSON.stringify of the weeks, each with its days looked up by
\* name (the last entry of a name wins in the Map) and listed in the order
\* of ALL_DAYS; parsed is what JSON.parse returns for these characters
exportText(weeks) ==
    LET dayMapGet(week, name) ==
          LET at == {k \in DOMAIN week.days : week.days[k].name = name}
          IN  IF at = {} THEN JsNull
              ELSE week.days[CHOOSE k \in at : \A kk \in at : kk <= k].workoutId
    IN  [label |-> "exported",
         parsed |->
           Some(SplitDoc([i \in DOMAIN weeks |->
                  JsObject(<<"id", "name", "days">>,
                           <<weeks[i].id, weeks[i].name,
                             JsArray([j \in DOMAIN ALL_DAYS |->
                                        DayEntry(JsString(ALL_DAYS[j]),
                                                 dayMapGet(weeks[i],
                                                           JsString(ALL_DAYS[j])))])>>)]))]

\* what can be typed or pasted into the import box: nothing, characters
\* that are not JSON, a well-formed document, or a document with one
\* defect in one of its weeks.  A well-formed document is laid out by a
\* style: the workout of each weekday, the order in which the days are
\* listed, and the week name as typed.
ImportTexts ==
    LET DocStyles ==
          {[plan |-> [j \in DOMAIN ALL_DAYS |-> JsNull],
            order |-> [k \in DOMAIN ALL_DAYS |-> Len(ALL_DAYS) + 1 - k],
            name |-> JsPadded(1, "Week", 1)],
           [plan |-> [j \in DOMAIN ALL_DAYS |->
                        IF j = 1 THEN JsString("w_a")
                        ELSE IF j = 2 THEN JsString("w_b") ELSE JsNull],
            order |-> [k \in DOMAIN ALL_DAYS |-> k],
            name |-> JsString("Week")]}
        GoodWeek(i, style) ==
          JsObject(<<"id", "name", "days">>,
                   <<JsString(uid("w", i)), style.name,
                     JsArray([k \in DOMAIN ALL_DAYS |->
                                DayEntry(JsString(ALL_DAYS[style.order[k]]),
                                         style.plan[style.order[k]])])>>)
        GoodWeeks(n, style) == [i \in 1..n |-> GoodWeek(i, style)]
        SetVal(o, k, v) ==
          [o EXCEPT !.vals[CHOOSE i \in DOMAIN o.keys : o.keys[i] = k] = v]
        \* an object with one key dropped, one key added, one key misspelt
        KeyDefects(o) ==
          {JsObject(SubSeq(o.keys, 1, Len(o.keys) - 1),
                    SubSeq(o.vals, 1, Len(o.vals) - 1)),
           JsObject(o.keys \o <<"note">>, o.vals \o <<JsString("n")>>),
           JsObject(SubSeq(o.keys, 1, Len(o.keys) - 1) \o <<"other">>, o.vals)}
        DayDefects(d, firstName) ==
          {JsNull, JsString("Monday")}
            \cup KeyDefects(d)
            \cup {SetVal(d, "name", v) :
                    v \in {JsString("Funday"), JsNumber(1),
                           JsPadded(1, "Monday", 0), firstName}}
            \cup {SetVal(d, "workoutId", v) :
                    v \in {JsNumber(3), JsString("w_gone"), JsString(""),
                           JsPadded(0, "w_a", 1)}}
        WeekDefects(week, otherIds) ==
          LET days == Get(week, "days").items
          IN  {JsNull, JsArray(<<>>)}
                \cup KeyDefects(week)
                \cup {SetVal(week, "id", v) :
                        v \in {JsNumber(1), JsString(""), JsPadded(2, "", 0)}
                                \cup otherIds}
                \cup {SetVal(week, "name", v) : v \in {JsNull, JsPadded(1, "", 1)}}
                \cup {SetVal(week, "days", v) :
                        v \in {JsNull,
                               JsArray(SubSeq(days, 1, Len(days) - 1)),
                               JsArray(days \o <<DayEntry(JsString("Monday"),
                                                          JsNull)>>)}}
                \cup UNION {{SetVal(week, "days",
                                    JsArray([days EXCEPT ![k] = bad])) :
                                bad \in DayDefects(days[k], Get(days[1], "name"))} :
                            k \in {2, Len(days)}}
        TopLevelDefects ==
          {JsNull, JsArray(<<>>), JsString("weeks"),
           JsObject(<<>>, <<>>),
           JsObject(<<"week">>,
                    <<JsArray(GoodWeeks(1, CHOOSE st \in DocStyles : TRUE))>>),
           JsObject(<<"weeks", "version">>,
                    <<JsArray(GoodWeeks(1, CHOOSE st \in DocStyles : TRUE)),
                      JsNumber(1)>>),
           SplitDoc(<<>>),
           JsObject(<<"weeks">>, <<JsNull>>),
           JsObject(<<"weeks">>, <<JsObject(<<>>, <<>>)>>)}
        good == {SplitDoc(GoodWeeks(n, style)) :
                    n \in 1..MaxWeeks, style \in DocStyles}
        defective ==
          TopLevelDefects \cup
          UNION {UNION {{SplitDoc([GoodWeeks(n, style) EXCEPT ![i] = bad]) :
                            bad \in WeekDefects(GoodWeek(i, style),
                                                {JsString(uid("w", j)) :
                                                    j \in (1..n) \ {i}})} :
                          i \in 1..n} :
                 n \in 1..MaxWeeks, style \in DocStyles}
    IN  {EmptyText, [label |-> "not json", parsed |-> Undefined]}
          \cup {[label |-> "json", parsed |-> Some(v)] : v \in good \cup defective}

InitImport ==
    /\ lastOp = "init"
    /\ \E st \in PageStates :
          page = [state |-> st, importOpen |-> FALSE, importText |-> EmptyText,
                  importError |-> Undefined, importReady |-> FALSE,
                  importWeeks |-> Undefined]
    /\ IdleSuggest
    /\ IdleMigrate
    /\ IdleHeap
    /\ IdlePlates
    /\ IdleApp

\* "Import Split" button
OpenImport ==
    /\ page' = resetImportState([page EXCEPT !.importOpen = TRUE])
    /\ lastOp' = "openImport"
    /\ UNCHANGED <<pureVars, appVars>>

\* Cancel button or backdrop of ImportModal
CloseImport ==
    /\ page.importOpen
    /\ page' = resetImportState([page EXCEPT !.importOpen = FALSE])
    /\ lastOp' = "closeImport"
    /\ UNCHANGED <<pureVars, appVars>>

\* typing into the textarea of ImportModal
HandleImportChange(value) ==
    /\ page.importOpen
    /\ page' = handleImportChange(page, value)
    /\ lastOp' = "handleImportChange"
    /\ UNCHANGED <<pureVars, appVars>>

\* Validate button
ValidateImport ==
    /\ page.importOpen
    /\ LET outcome == validateImport(page.importText, PageLibrary(page))
       IN  page' = [page EXCEPT !.importError = outcome.importError,
                                !.importReady = outcome.importReady,
                                !.importWeeks = outcome.importWeeks]
    /\ lastOp' = "validateImport"
    /\ UNCHANGED <<pureVars, appVars>>

\* Import button (disabled unless importReady): handleImport
HandleImport ==
    /\ page.importOpen
    /\ page.importReady
    /\ IsDefined(page.importWeeks)
    /\ page' = resetImportState(
                 [page EXCEPT !.state = onRequestImportSplit(page.state,
                                                             Val(page.importWeeks)),
                              !.importOpen = FALSE])
    /\ lastOp' = "handleImport"
    /\ UNCHANGED <<pureVars, appVars>>

NextImport ==
    \/ OpenImport
    \/ CloseImport
    \/ \E value \in ImportTexts : HandleImportChange(value)
    \/ HandleImportChange(exportText(PageWeeks(page)))
    \/ ValidateImport
    \/ HandleImport

SpecImport == InitImport /\ [][NextImport]_vars

\* ------------------ schedule editing and split import ------------------

\* the app as loaded from a legacy document, and the split editor page
InitSplit ==
    /\ lastOp = "init"
    /\ \E stored \in StoredDocs : state = loadState(stored)
    /\ tab = "Today"
    /\ screen = HomeScreen
    /\ confirmState = Undefined
    /\ addModalOpen = FALSE
    /\ draft = Undefined
    /\ uidCounter = 0
    /\ \E st \in PageStates :
          page = [state |-> st, importOpen |-> FALSE, importText |-> EmptyText,
                  importError |-> Undefined, importReady |-> FALSE,
                  importWeeks |-> Undefined]
    /\ IdleSuggest
    /\ IdleMigrate
    /\ IdleHeap
    /\ IdlePlates

\* the documents pasted while the schedule is edited: the well-formed ones
\* and those with a wrong number of days
SplitTexts ==
    {t \in ImportTexts :
        LET o == validateImport(t, PageLibrary([state |-> CHOOSE st \in PageStates : TRUE]))
        IN  \/ o.importReady
            \/ o.importError = Some("Week 1 must have exactly 7 days.")}

\* ImportModal covers the window (fixed inset-0) while it is open, so the
\* handlers behind it run only while it is closed
NextSplit ==
    \/ ~page.importOpen /\ SetTab("Split")
    \/ /\ ~page.importOpen
       /\ \E w \in LibraryIdsOf(state) \cup {Null} : UpdateSplitDay("Monday", w)
    \/ ~page.importOpen /\ \E w \in {"week1", "week2"} : SetActiveWeek(w)
    \/ ~page.importOpen /\ \E w \in LibraryIdsOf(state) : RequestDeleteWorkout(w)
    \/ ~page.importOpen /\ ConfirmDeleteWorkout
    \/ OpenImport
    \/ \E value \in SplitTexts : HandleImportChange(value)
    \/ ValidateImport
    \/ HandleImport

SpecSplit == InitSplit /\ [][NextSplit]_vars

\* ------------------------------ claims ---------------------------------

Suggested == lastOp = "computeSuggestion" /\ IsDefined(suggestion)

IsSingle(c, d) ==
    /\ Len(sets) = 1
    /\ sets[1].exerciseId = ex.id
    /\ sets[1].cleanReps = c
    /\ sets[1].dirtyReps = d

\* C1: the action is decided on the representative set in priority order:
\* increase when cleanReps >= progressMinClean and the dirty ratio is at most
\* maxDirtyRatioToProgress, otherwise decrease when cleanReps < workRangeMin,
\* otherwise hold; at default thresholds a single 10 clean / 0 dirty set
\* gives increase and a single 10 clean / 5 dirty set gives hold.
C1_DecisionPriority ==
    Suggested =>
        LET r == Val(suggestion)
            b == r.best.s
            sch == ex.repScheme
            lowDirty == b.dirtyReps * sch.maxDirtyRatioToProgress.den
                          <= sch.maxDirtyRatioToProgress.num
                               * (b.cleanReps + b.dirtyReps)
        IN  /\ r.action = IF b.cleanReps >= sch.progressMinClean /\ lowDirty
                          THEN "increase"
                          ELSE IF b.cleanReps < sch.workRangeMin
                          THEN "decrease" ELSE "hold"
            /\ (ex.repScheme = DefaultRepScheme /\ IsSingle(10, 0))
                  => r.action = "increase"
            /\ (ex.repScheme = DefaultRepScheme /\ IsSingle(10, 5))
                  => r.action = "hold"

\* a set that reaches progressMinClean below workRangeMin: increase wins
C1_Witness ==
    /\ Suggested
    /\ Val(suggestion).best.s.cleanReps < ex.repScheme.workRangeMin
    /\ Val(suggestion).action = "increase"

EffReps(s) ==
    s.cleanReps * ex.repScheme.dirtyPenalty.den
      + s.dirtyReps * ex.repScheme.dirtyPenalty.num

RelevantIdx == {i \in DOMAIN sets : sets[i].exerciseId = ex.id}

\* C2: the representative set is a set of the exercise with the maximum
\* effectiveReps, and among the sets tying for the maximum it is the first
\* in the order of the input sequence.
C2_RepresentativeFirstMax ==
    Suggested =>
        \E i \in RelevantIdx :
            /\ Val(suggestion).best.s = sets[i]
            /\ \A j \in RelevantIdx : EffReps(sets[j]) <= EffReps(sets[i])
            /\ \A j \in RelevantIdx :
                   j < i => EffReps(sets[j]) < EffReps(sets[i])

\* two sets of the exercise tie with different reps; the first one is chosen
C2_Witness ==
    /\ Suggested
    /\ Len(sets) = 2
    /\ RelevantIdx = {1, 2}
    /\ EffReps(sets[1]) = EffReps(sets[2])
    /\ sets[1].cleanReps # sets[2].cleanReps
    /\ Val(suggestion).best.s.id = 1

\* the slot of the requested day in the week that settings select
ActiveSlot ==
    LET aw == IF raw.settings # Undefined /\ raw.settings[1].activeWeek # Null
              THEN raw.settings[1].activeWeek ELSE "week1"
    IN  IF raw.split = Undefined THEN Null ELSE raw.split[1][aw].days[day]

LibraryIds ==
    IF raw.workoutLibrary = Undefined THEN {}
    ELSE {raw.workoutLibrary[1][i].id : i \in DOMAIN raw.workoutLibrary[1]}

\* C5: when the active week's slot for the day holds a workout id that is not
\* in the workout library, resolveWorkoutForDay returns no workout and no
\* workout id; it does not fall back to a legacy template of that day.
C5_StaleIdNoWorkout ==
    (lastOp = "resolveWorkoutForDay" /\ ActiveSlot # Null
       /\ ActiveSlot \notin LibraryIds)
      => /\ Val(resolved).workout = Undefined
         /\ Val(resolved).workoutId = Null

\* a stale id on a day for which a legacy template exists
C5_Witness ==
    /\ lastOp = "resolveWorkoutForDay"
    /\ ActiveSlot = "w_gone"
    /\ raw.workoutLibrary # Undefined
    /\ \E i \in DOMAIN raw.workouts : raw.workouts[i].day = day
    /\ Val(resolved).workout = Undefined

\* C6: the active week comes from settings (week1 when settings or activeWeek
\* is unset); when that week's slot for the day holds an id present in the
\* library the result is exactly that library workout and its id, whatever
\* the other week's slot holds.
C6_ActiveWeekSlotResolved ==
    lastOp = "resolveWorkoutForDay" =>
        /\ Val(resolved).activeWeek =
              (IF raw.settings = Undefined THEN "week1"
               ELSE IF raw.settings[1].activeWeek = Null THEN "week1"
               ELSE raw.settings[1].activeWeek)
        /\ (ActiveSlot # Null /\ ActiveSlot \in LibraryIds) =>
              /\ Val(resolved).workoutId = ActiveSlot
              /\ Val(resolved).workout # Undefined
              /\ \E i \in DOMAIN raw.workoutLibrary[1] :
                    /\ raw.workoutLibrary[1][i] = Val(Val(resolved).workout)
                    /\ raw.workoutLibrary[1][i].id = ActiveSlot

\* week 2 is active and holds another library workout than week 1
C6_Witness ==
    /\ lastOp = "resolveWorkoutForDay"
    /\ raw.settings # Undefined
    /\ raw.settings[1].activeWeek = "week2"
    /\ raw.split # Undefined
    /\ raw.split[1].week1.days[day] = "w_a"
    /\ Val(resolved).workoutId = "w_b"
    /\ Val(Val(resolved).workout).name = "B2"

\* C9: ensureV2State is idempotent: an input that already has
\* workoutLibrary, split and settings is returned unchanged, and for every
\* input a second application returns what the first returned.
C9_EnsureV2Idempotent ==
    /\ (migrated # Undefined /\ raw.workoutLibrary # Undefined
          /\ raw.split # Undefined /\ raw.settings # Undefined)
         => Val(migrated) = raw
    /\ again # Undefined => again = migrated

\* a legacy input that migration changed, migrated twice
C9_Witness ==
    /\ lastOp = "ensureV2StateAgain"
    /\ raw.workoutLibrary = Undefined
    /\ raw.workouts # <<>>
    /\ Val(migrated) # raw
    /\ again = migrated

IsLegacy(st) ==
    st.workoutLibrary = Undefined \/ st.split = Undefined \/ st.settings = Undefined

FirstTemplateId(ws, d) ==
    LET idx == {i \in DOMAIN ws : ws[i].day = d}
    IN  IF idx = {} THEN Null
        ELSE ws[CHOOSE i \in idx : \A j \in idx : i <= j].id

\* C10: migrating a legacy state creates one library item per legacy template
\* (same id, name and exercise ids, in the original order), week 1 holds for
\* each weekday the id of the first template assigned to it (rest when none),
\* and the active week is week 1.
C10_MigrationFirstPerWeekday ==
    (migrated # Undefined /\ IsLegacy(raw)) =>
        LET m == Val(migrated)
            lib == Val(m.workoutLibrary)
        IN  /\ Len(lib) = Len(raw.workouts)
            /\ \A i \in DOMAIN lib :
                  /\ lib[i].id = raw.workouts[i].id
                  /\ lib[i].name = raw.workouts[i].name
                  /\ lib[i].exerciseIds = raw.workouts[i].exerciseIds
            /\ \A i \in DOMAIN ALL_DAYS :
                  Val(m.split).week1.days[ALL_DAYS[i]]
                    = FirstTemplateId(raw.workouts, ALL_DAYS[i])
            /\ DOMAIN Val(m.split).week1.days = Range(ALL_DAYS)
            /\ Val(m.settings).activeWeek = "week1"

\* two templates with different ids on the same weekday: the first one is
\* scheduled, both are in the library
C10_Witness ==
    /\ migrated # Undefined
    /\ IsLegacy(raw)
    /\ Len(raw.workouts) >= 2
    /\ raw.workouts[1].day = raw.workouts[2].day
    /\ raw.workouts[1].id # raw.workouts[2].id
    /\ Val(Val(migrated).split).week1.days[raw.workouts[1].day] = raw.workouts[1].id
    /\ Val(Val(migrated).workoutLibrary)[2].id = raw.workouts[2].id

WeekNames == {"week1", "week2"}

\* C3: when a library workout is deleted, every day-slot of every week that
\* held its id becomes rest, every other day-slot keeps its value, and the
\* session list (sessions of the deleted workout included) is unchanged.
C3_DeleteCascadesToSlots ==
    [][lastOp' = "confirmDeleteWorkout" =>
         /\ \A wk \in WeekNames : \A i \in DOMAIN ALL_DAYS :
              state'.split[1][wk].days[ALL_DAYS[i]] =
                IF state.split[1][wk].days[ALL_DAYS[i]] = confirmState[1].id
                THEN Null
                ELSE state.split[1][wk].days[ALL_DAYS[i]]
         /\ state'.sessions = state.sessions]_vars

\* after a deletion: a session still names the deleted workout, no slot
\* does, and another workout is still scheduled in both weeks
C3_Witness ==
    /\ lastOp = "confirmDeleteWorkout"
    /\ \E i \in DOMAIN state.sessions :
         /\ state.sessions[i].workoutId \notin LibraryIdsOf(state)
         /\ \A wk \in WeekNames : \A j \in DOMAIN ALL_DAYS :
              state.split[1][wk].days[ALL_DAYS[j]] # state.sessions[i].workoutId
    /\ \A wk \in WeekNames :
         \E j \in DOMAIN ALL_DAYS : state.split[1][wk].days[ALL_DAYS[j]] # Null

\* C4: when the state has the v2 structures and the active week's slot for a
\* day is rest, resolveWorkoutForDay returns no workout for that day; the
\* legacy template list is consulted only when no v2 structure exists.
C4_RestSlotNoWorkout ==
    \A i \in DOMAIN ALL_DAYS :
        (/\ state.workoutLibrary # Undefined
         /\ state.split # Undefined
         /\ state.settings # Undefined
         /\ state.split[1][state.settings[1].activeWeek].days[ALL_DAYS[i]] = Null)
          => resolveWorkoutForDay(state, ALL_DAYS[i]).workout = Undefined

\* C7: once a session's status is no longer 'active', no step makes its set
\* sequence longer.
C7_NoSetAfterEnd ==
    [][\A i \in DOMAIN state.sessions : \A j \in DOMAIN state'.sessions :
          (state.sessions[i].status # "active"
             /\ state'.sessions[j].id = state.sessions[i].id)
            => Len(state'.sessions[j].sets) <= Len(state.sessions[i].sets)]_vars

\* the defects of a split document that the import must reject
IsWeekShaped(w) ==
    /\ w.type = "object"
    /\ Len(w.keys) = 3
    /\ {w.keys[i] : i \in DOMAIN w.keys} = {"id", "name", "days"}

IsDayShaped(d) ==
    /\ d.type = "object"
    /\ Len(d.keys) = 2
    /\ {d.keys[i] : i \in DOMAIN d.keys} = {"name", "workoutId"}

DayListOf(w) == Get(w, "days").items

BadDayList(w, libraryIds) ==
    /\ IsWeekShaped(w)
    /\ Get(w, "days").type = "array"
    /\ \/ Len(DayListOf(w)) # 7
       \/ \E k \in DOMAIN DayListOf(w) :
             /\ IsDayShaped(DayListOf(w)[k])
             /\ \/ ~IsDayName(Get(DayListOf(w)[k], "name"))
                \/ \E kk \in DOMAIN DayListOf(w) :
                      /\ kk # k
                      /\ IsDayShaped(DayListOf(w)[kk])
                      /\ Get(DayListOf(w)[kk], "name") = Get(DayListOf(w)[k], "name")
                \/ /\ Get(DayListOf(w)[k], "workoutId").type = "string"
                   /\ Get(DayListOf(w)[k], "workoutId") \notin libraryIds

MalformedSplitDoc(text, libraryIds) ==
    /\ IsDefined(text.parsed)
    /\ LET v == Val(text.parsed)
       IN  \/ v.type # "object"
           \/ /\ v.type = "object"
              /\ v.keys # <<"weeks">>
           \/ /\ v.type = "object"
              /\ v.keys = <<"weeks">>
              /\ \/ v.vals[1].type # "array"
                 \/ /\ v.vals[1].type = "array"
                    /\ LET ws == v.vals[1].items
                       IN  \/ ws = <<>>
                           \/ \E i \in DOMAIN ws :
                                 ws[i].type = "object" /\ ~IsWeekShaped(ws[i])
                           \/ \E i, j \in DOMAIN ws :
                                 /\ i < j
                                 /\ IsWeekShaped(ws[i])
                                 /\ IsWeekShaped(ws[j])
                                 /\ Get(ws[i], "id") = Get(ws[j], "id")
                           \/ \E i \in DOMAIN ws : BadDayList(ws[i], libraryIds)

\* C8: validating a split document that has a day list of length other than
\* 7, a duplicate or invalid weekday name, a workoutId missing from the
\* library, a non-object top level, keys other than exactly 'weeks', a
\* non-array or empty 'weeks', a week with keys other than exactly
\* id/name/days, or a duplicate week id, leaves a non-empty error message,
\* leaves the import disabled with no weeks to import, and leaves the split,
\* the library and the sessions as they were.
C8_MalformedImportRejected ==
    [][(lastOp' = "validateImport"
          /\ MalformedSplitDoc(page.importText,
                               {PageLibrary(page)[i].id :
                                   i \in DOMAIN PageLibrary(page)}))
        => /\ IsDefined(page'.importError)
           /\ Val(page'.importError) # ""
           /\ ~page'.importReady
           /\ page'.importWeeks = Undefined
           /\ page'.state = page.state]_vars

\* the second week of a document names a workout that is not in the library
C8_Witness ==
    /\ lastOp = "validateImport"
    /\ IsDefined(page.state.split)
    /\ page.importError =
         Some("Week 2 day 'Tuesday' references missing workout 'w_gone'.")
    /\ ~page.importReady
    /\ page.importWeeks = Undefined

\* the days of one week of the state at address st
DaysAt(h, st, week) == h[h[h[Val(h[st].split)][week]].days].slots

\* the slots whose value differs between the state st in h and st2 in h2
ChangedSlots(h, st, h2, st2) ==
    {slot \in {"week1", "week2"} \X Range(ALL_DAYS) :
        DaysAt(h2, st2, slot[1])[slot[2]] # DaysAt(h, st, slot[1])[slot[2]]}

\* C11: right after the migration week2 equals week1 on every weekday, and
\* from then on the weeks are independent: setting one day slot of one
\* week, by assignment or through updateSplitDay, changes no slot of the
\* other week and no other slot of the same week.
C11_WeeksIndependent ==
    [][/\ lastOp' = "ensureV2StateRef" =>
            DaysAt(heap', current', "week2") = DaysAt(heap', current', "week1")
       /\ lastOp' \in {"setSlotDirect", "updateSplitDayRef"} =>
            Cardinality(ChangedSlots(heap, current, heap', current')) <= 1]_vars

C11_Witness ==
    /\ lastOp \in {"setSlotDirect", "updateSplitDayRef"}
    /\ DaysAt(heap, current, "week1")["Monday"] = "w_a"
    /\ DaysAt(heap, current, "week2")["Monday"] = Null

\* the caller's legacy templates, each with the ids of its exerciseIds array
LegacyAt(h, st) ==
    [i \in DOMAIN h[h[st].workouts].refs |->
        [h[h[h[st].workouts].refs[i]] EXCEPT !.exerciseIds = h[@].ids]]

\* C12: ensureV2State never changes its input: every object that existed
\* before the call is as it was, so the caller's template list and each
\* template's exercise ids are as before; and no later edit of the migrated
\* state, an edit in place of a library item's exerciseIds included, changes
\* the legacy templates.
C12_InputUnchanged ==
    [][/\ lastOp' = "ensureV2StateRef" => SubSeq(heap', 1, Len(heap)) = heap
       /\ LegacyAt(heap', input') = LegacyAt(heap, input)]_vars

C12_Witness ==
    /\ lastOp = "pushExerciseId"
    /\ \E i \in DOMAIN heap[heap[input].workouts].refs :
          LET item == heap[heap[Val(heap[current].workoutLibrary)].refs[i]]
          IN  heap[item.exerciseIds].ids =
                 Append(LegacyAt(heap, input)[i].exerciseIds, "t_new")

\* C13: the next weight is the representative set's total plus the
\* increment on an increase, the larger of zero and the total minus the
\* increment on a decrease, and the total itself on a hold; a non-negative
\* total never gives a negative next weight.
C13_NextWeight ==
    Suggested =>
        LET sug == Val(suggestion)
            tot == sug.best.weightTotal
        IN  /\ sug.action = "increase" => sug.nextWeight = tot + sug.inc
            /\ sug.action = "decrease" =>
                  sug.nextWeight = IF tot - sug.inc > 0 THEN tot - sug.inc ELSE 0
            /\ sug.action = "hold" => sug.nextWeight = tot
            /\ tot >= 0 => sug.nextWeight >= 0

\* a decrease from a total smaller than the increment
C13_Witness ==
    /\ Suggested
    /\ Val(suggestion).action = "decrease"
    /\ Val(suggestion).best.weightTotal < Val(suggestion).inc
    /\ Val(suggestion).nextWeight = 0

\* C14: the raw increment is twice dbIncrementPerHand for a dumbbell
\* exercise, twice barbellIncrementPerSide for a barbell exercise and
\* otherIncrementTotal for machine, cable and bodyweight; a barbell exercise
\* at the default settings whose action is increase reports an increment of
\* 20 and a per-side plate delta of exactly one 10 plate.
C14_RawIncrement ==
    Suggested =>
        LET sug == Val(suggestion)
        IN  /\ ex.equipment = "db" => sug.inc = 2 * ex.dbIncrementPerHand
            /\ ex.equipment = "barbell" => sug.inc = 2 * ex.barbellIncrementPerSide
            /\ ex.equipment \in {"machine", "cable", "bodyweight"} =>
                  sug.inc = ex.otherIncrementTotal
            /\ (/\ ex.equipment = "barbell"
                /\ ex.barbellIncrementPerSide = Lb(10)
                /\ sug.action = "increase") =>
                  /\ sug.inc = Lb(20)
                  /\ IsDefined(sug.barbell)
                  /\ Val(sug.barbell).deltaPlatesPerSide =
                        Some([p \in {Lb(45), Lb(35), Lb(25), Lb(10), Lb(5), 10} |->
                                IF p = Lb(10) THEN 1 ELSE 0])

\* a default barbell exercise told to increase
C14_Witness ==
    /\ Suggested
    /\ ex.equipment = "barbell"
    /\ ex.barbellIncrementPerSide = Lb(10)
    /\ Val(suggestion).action = "increase"
    /\ Val(suggestion).inc = Lb(20)

\* suggestion.barbell?.deltaPlatesPerSide and suggestion.barbell?.nextPlatesPerSide
DeltaOf(sug) ==
    IF IsDefined(sug.barbell) THEN Val(sug.barbell).deltaPlatesPerSide ELSE Undefined

NextOf(sug) ==
    IF IsDefined(sug.barbell) THEN Val(sug.barbell).nextPlatesPerSide ELSE Undefined

\* the exercise is barbell, the action is increase and the representative
\* set carried plate counts
CarriedIncrease(sug) ==
    /\ ex.equipment = "barbell"
    /\ sug.action = "increase"
    /\ IsDefined(sug.best.s.barbellPlatesPerSide)

\* C15 as stated: a suggestion carries a per-side plate delta and a next
\* per-side breakdown exactly when the exercise is barbell, the action is
\* increase and the representative set carried plate counts; in every
\* other case both are none.
C15_DeltaOnlyWithPlateCounts ==
    Suggested =>
        LET sug == Val(suggestion)
        IN  /\ IsDefined(DeltaOf(sug)) <=> CarriedIncrease(sug)
            /\ IsDefined(NextOf(sug)) <=> CarriedIncrease(sug)

\* C15, amended: a suggestion carries a per-side plate delta exactly when
\* the exercise is barbell and the action is increase, and a next per-side
\* breakdown exactly when, in addition, the representative set carried
\* plate counts; the next breakdown then has, for every denomination, the
\* representative set's count plus the delta's count.  For a non-barbell
\* exercise, a hold or a decrease both are none.
C15_PlateDelta ==
    Suggested =>
        LET sug == Val(suggestion)
        IN  /\ IsDefined(DeltaOf(sug)) <=>
                  (ex.equipment = "barbell" /\ sug.action = "increase")
            /\ IsDefined(NextOf(sug)) <=> CarriedIncrease(sug)
            /\ CarriedIncrease(sug) =>
                  \A p \in {Lb(45), Lb(35), Lb(25), Lb(10), Lb(5), 10} :
                      Val(NextOf(sug))[p] =
                          Val(sug.best.s.barbellPlatesPerSide)[p] + Val(DeltaOf(sug))[p]

\* a barbell increase from a set with plate counts, the next breakdown
\* holding two 10 plates per side
C15_Witness ==
    /\ Suggested
    /\ CarriedIncrease(Val(suggestion))
    /\ IsDefined(NextOf(Val(suggestion)))
    /\ Val(NextOf(Val(suggestion)))[Lb(10)] = 2

\* C16: for a barbell exercise and a set that has no plate counts,
\* setTotalWeight returns the exercise's bar weight, whatever scalar weight
\* the set carries.
C16_BarbellWithoutPlatesIsBar ==
    (/\ Suggested
     /\ ex.equipment = "barbell"
     /\ ~IsDefined(Val(suggestion).best.s.barbellPlatesPerSide)) =>
        Val(suggestion).best.weightTotal = ex.barWeight

\* C19: for a non-barbell exercise setTotalWeight is twice the set's weight
\* for a dumbbell exercise and the weight itself for machine, cable and
\* bodyweight, a missing weight counting as zero; 60 per hand gives 120.
C19_ScalarTotal ==
    (Suggested /\ ex.equipment # "barbell") =>
        LET best == Val(suggestion).best
            weight == IF IsDefined(best.s.weight) THEN Val(best.s.weight) ELSE 0
        IN  /\ ex.equipment = "db" => best.weightTotal = 2 * weight
            /\ ex.equipment \in {"machine", "cable", "bodyweight"} =>
                  best.weightTotal = weight
            /\ (ex.equipment = "db" /\ best.s.weight = Some(Lb(60))) =>
                  best.weightTotal = Lb(120)

C19_Witness ==
    /\ Suggested
    /\ ex.equipment = "db"
    /\ Val(suggestion).best.s.weight = Some(Lb(60))
    /\ Val(suggestion).best.weightTotal = Lb(120)

\* C20: computeSuggestion returns none exactly when the history holds no
\* set whose exerciseId is the exercise's id, the empty history included,
\* and a suggestion otherwise.
C20_NoneIffNoRelevantSet ==
    lastOp = "computeSuggestion" => (suggestion = Undefined <=> RelevantIdx = {})

\* a history of sets of another exercise only
C20_Witness ==
    /\ lastOp = "computeSuggestion"
    /\ sets # <<>>
    /\ RelevantIdx = {}
    /\ suggestion = Undefined

\* a per-side weight that some counts of the denominations add up to: the
\* denominations are multiples of the 2.5 plate, which is 10 quarter pounds
Representable(w) == w >= 0 /\ w % 10 = 0

\* the decomposition of the target has been totalled on no bar
DecomposedOnNoBar ==
    /\ lastOp = "platesPerSideToTotal(platesForWeightPerSide)"
    /\ bar = 0
    /\ Representable(target)

\* C17 as stated: for every non-negative per-side target w exactly
\* representable by the denominations, totalFromPerSide of the
\* decomposition of w on no bar equals round(w*2)/2.
C17_TotalIsRoundedTarget ==
    DecomposedOnNoBar => Val(total) = RoundHalf(target)

\* C17, amended: for every such w, totalFromPerSide of the decomposition of
\* w on no bar equals twice round(w*2)/2, the decomposition adding up to
\* round(w*2)/2 on each side; 15 decomposes to one 10 and one 5.
C17_TotalIsTwiceRoundedTarget ==
    /\ DecomposedOnNoBar => Val(total) = 2 * RoundHalf(target)
    /\ (lastOp = "platesForWeightPerSide" /\ target = Lb(15)) =>
          loaded = [p \in {Lb(45), Lb(35), Lb(25), Lb(10), Lb(5), 10} |->
                      IF p \in {Lb(10), Lb(5)} THEN 1 ELSE 0]

\* 15 per side, decomposed and totalled on no bar
C17_Witness ==
    /\ DecomposedOnNoBar
    /\ target = Lb(15)
    /\ loaded[Lb(10)] = 1 /\ loaded[Lb(5)] = 1
    /\ total = Some(Lb(30))

\* the count of a denomination in the plate counts given, a missing one
\* counting as zero
LoadedCount(p) == IF p \in DOMAIN loaded THEN loaded[p] ELSE 0

\* C18: platesPerSideToTotal is the bar weight plus twice the sum over the
\* denominations of denomination times count, a missing denomination
\* counting as zero; bar 45 with one 10 plate per side totals 65.
C18_TotalOfPlates ==
    lastOp \in {"platesPerSideToTotal", "platesPerSideToTotal(platesForWeightPerSide)"} =>
        /\ Val(total) =
              bar + 2 * (Lb(45) * LoadedCount(Lb(45)) + Lb(35) * LoadedCount(Lb(35))
                         + Lb(25) * LoadedCount(Lb(25)) + Lb(10) * LoadedCount(Lb(10))
                         + Lb(5) * LoadedCount(Lb(5)) + 10 * LoadedCount(10))
        /\ (/\ bar = Lb(45)
            /\ LoadedCount(Lb(10)) = 1
            /\ \A p \in {Lb(45), Lb(35), Lb(25), Lb(5), 10} : LoadedCount(p) = 0) =>
              Val(total) = Lb(65)

\* one 10 plate per side and denominations missing, on the default bar
C18_Witness ==
    /\ lastOp = "platesPerSideToTotal"
    /\ bar = Lb(45)
    /\ DOMAIN loaded = {Lb(10), Lb(5)}
    /\ loaded[Lb(10)] = 1 /\ loaded[Lb(5)] = 0
    /\ total = Some(Lb(65))

\* a legacy snapshot: exercises, workouts and sessions, no v2 field
LegacyShape(doc) ==
    /\ IsDefined(doc)
    /\ IsDefined(Val(doc).exercises)
    /\ IsDefined(Val(doc).workouts)
    /\ IsDefined(Val(doc).sessions)
    /\ ~IsDefined(Val(doc).workoutLibrary)
    /\ ~IsDefined(Val(doc).split)
    /\ ~IsDefined(Val(doc).settings)

\* a v2 snapshot: exercises, workoutLibrary, split, settings and sessions
V2Shape(doc) ==
    /\ IsDefined(doc)
    /\ IsDefined(Val(doc).exercises)
    /\ IsDefined(Val(doc).workoutLibrary)
    /\ IsDefined(Val(doc).split)
    /\ IsDefined(Val(doc).settings)
    /\ IsDefined(Val(doc).sessions)

\* C21: importing a full snapshot accepts both shapes: a legacy document
\* (exercises, workouts, sessions) and a v2 document (exercises,
\* workoutLibrary, split, settings, sessions) are both imported, the state
\* then holding the document's exercises; a rejected document leaves the
\* state unchanged.
C21_BothShapesImported ==
    [][\A doc \in BackupDocs :
          ImportJson(doc) =>
            /\ (LegacyShape(doc) \/ V2Shape(doc)) =>
                  /\ importJson(state, doc).alert = "Imported."
                  /\ state'.exercises = Val(Val(doc).exercises)
            /\ importJson(state, doc).alert = "Invalid backup JSON." =>
                  state' = state]_vars

\* C23: confirming "Reset history" empties the sessions and leaves the
\* exercises, the workouts, the library, the split and the settings as they
\* were; cancelling the confirmation changes nothing.
C23_ResetClearsHistoryOnly ==
    [][/\ lastOp' = "confirmResetHistory" =>
            /\ state'.sessions = <<>>
            /\ state'.exercises = state.exercises
            /\ state'.workouts = state.workouts
            /\ state'.workoutLibrary = state.workoutLibrary
            /\ state'.split = state.split
            /\ state'.settings = state.settings
       /\ (/\ lastOp' = "cancelConfirm"
           /\ Val(confirmState).op = "resetHistory") =>
            /\ state' = state
            /\ tab' = tab
            /\ screen' = screen]_vars

\* an imported backup with its recorded session, reset: the library, the
\* split and the settings of the backup are still there
C23_Witness ==
    /\ lastOp = "confirmResetHistory"
    /\ state.sessions = <<>>
    /\ state.exercises # <<>>
    /\ "w_c" \in LibraryIdsOf(state)
    /\ Val(state.split).week2.days["Tuesday"] = "w_b"
    /\ ActiveWeekOf(state) = "week2"
    /\ tab = "Today"

\* a week of the app's split: one slot for each weekday, Monday to Sunday,
\* holding rest (null) or an id
AppWeekOk(w) ==
    /\ DOMAIN w.days = Range(ALL_DAYS)
    /\ \A d \in DOMAIN w.days : w.days[d] = Null \/ w.days[d] # ""

\* a week of the split editor's split: seven entries, one for each weekday
\* in Monday-to-Sunday order, holding rest (null) or an id
PageWeekOk(w) ==
    /\ Len(w.days) = Len(ALL_DAYS)
    /\ \A j \in DOMAIN w.days :
          /\ w.days[j].name = JsString(ALL_DAYS[j])
          /\ \/ w.days[j].workoutId = JsNull
             \/ /\ w.days[j].workoutId.type = "string"
                /\ w.days[j].workoutId.body # ""

\* C22: in every state reached by migration, day-slot edits, workout
\* deletions and split imports, every week of the split has exactly one
\* slot for each weekday Monday..Sunday, holding rest or a workout id.
C22_OneSlotPerWeekday ==
    /\ IsDefined(state.split)
    /\ AppWeekOk(Val(state.split).week1)
    /\ AppWeekOk(Val(state.split).week2)
    /\ IsDefined(page.state.split) =>
          \A i \in DOMAIN Val(page.state.split).weeks :
             PageWeekOk(Val(page.state.split).weeks[i])

\* a workout was deleted after the second week was edited, and a document
\* of two weeks listing its days from Sunday to Monday was imported
C22_Witness ==
    /\ "w_a" \notin LibraryIdsOf(state)
    /\ Val(state.split).week1.days["Monday"] = Null
    /\ Val(state.split).week2.days["Monday"] = "w_b"
    /\ lastOp = "handleImport"
    /\ IsDefined(page.state.split)
    /\ Len(Val(page.state.split).weeks) = 2
    /\ Val(page.state.split).weeks[2].name = JsString("Week")
    /\ Val(page.state.split).weeks[2].days[1].workoutId = JsNull

\* C24: after a library workout is deleted, resolveWorkoutForDay never
\* returns that workout, for any weekday and under either active week.
\* Every workout id of these states was in the library when the app
\* started or was created later, so an id outside the library is a deleted
\* one.
C24_DeletedNeverResolved ==
    \A w \in {"week1", "week2"} : \A j \in DOMAIN ALL_DAYS :
        LET r == resolveWorkoutForDay(setActiveWeek(state, w), ALL_DAYS[j])
        IN  IsDefined(r.workout) => Val(r.workout).id \in LibraryIdsOf(state)

\* C25: a split import is applied only as a whole and only if the current
\* text passed validation.  Import is enabled exactly after a successful
\* validation of the text in the box: every edit, opening and closing
\* disables it; while it is disabled no step changes the page's state; and
\* the step that imports replaces the split by the validated weeks.
C25_ImportOnlyAfterValidation ==
    [][/\ page'.importReady <=>
            /\ lastOp' = "validateImport"
            /\ validateImport(page.importText, PageLibrary(page)).importReady
            /\ page'.importText = page.importText
       /\ page'.state # page.state =>
            /\ page.importReady
            /\ lastOp' = "handleImport"
            /\ page'.state =
                 [page.state EXCEPT !.split =
                    Some([weeks |->
                            Val(validateImport(page.importText,
                                               PageLibrary(page)).importWeeks)])]
            /\ ~page'.importReady]_vars

\* a validated document of two weeks was imported: the modal is closed and
\* Import is disabled again
C25_Witness ==
    /\ lastOp = "handleImport"
    /\ ~page.importOpen
    /\ ~page.importReady
    /\ page.importWeeks = Undefined
    /\ IsDefined(page.state.split)
    /\ Len(Val(page.state.split).weeks) = MaxWeeks
    /\ Val(page.state.split).weeks[1].days[2].workoutId = JsString("w_b")

\* C26 as stated: the sets of every session appear in creation order,
\* oldest first (addSet places the new set after every set of the session).
C26_OldestFirst ==
    \A i \in DOMAIN state.sessions :
        LET ss == state.sessions[i].sets
        IN  \A j, k \in DOMAIN ss : j < k => ss[j].createdAt < ss[k].createdAt

\* C26, amended: the sets of every session appear in creation order, newest
\* first: addSet places the new set before every set already in the
\* session, and deleteSet and updateSet keep the order.
C26_NewestFirst ==
    \A i \in DOMAIN state.sessions :
        LET ss == state.sessions[i].sets
        IN  \A j, k \in DOMAIN ss : j < k => ss[j].createdAt > ss[k].createdAt

\* a session holding two sets, one of them edited after the other was added
C26_Witness ==
    /\ lastOp = "updateSet"
    /\ \E i \in DOMAIN state.sessions :
          LET ss == state.sessions[i].sets
          IN  /\ Len(ss) >= 2
              /\ ss[1].id = uid("set", 3)
              /\ ss[2].cleanReps # ss[1].cleanReps

\* the total of the next per-side breakdown with the exercise's bar
NextPlatesTotal(sug) == platesPerSideToTotal(Val(NextOf(sug)), ex.barWeight)

C28_OneActivePerWorkoutAndDate ==
    /\ \A i, j \in DOMAIN state.sessions :
          (/\ state.sessions[i].status = "active"
           /\ state.sessions[j].status = "active"
           /\ state.sessions[i].workoutId = state.sessions[j].workoutId
           /\ state.sessions[i].dateISO = state.sessions[j].dateISO)
            => i = j
    /\ lastOp = "openSession" =>
          /\ SessionShown
          /\ ShownSession.status = "active"
          /\ ShownSession.dateISO = todayISO
          /\ ShownSession.workoutId =
               resolveWorkoutForDay(state, Today).workoutId

\* openSession resumed the active session of today, which holds a set, next
\* to a session of the same workout and date that was ended before
C28_Witness ==
    /\ lastOp = "openSession"
    /\ SessionShown
    /\ ShownSession.sets # <<>>
    /\ \E i \in DOMAIN state.sessions :
          /\ state.sessions[i].id # ShownSession.id
          /\ state.sessions[i].workoutId = ShownSession.workoutId
          /\ state.sessions[i].dateISO = todayISO
          /\ state.sessions[i].status = "completed"

\* the weeks have unique non-empty ids, non-empty trimmed names and
\* day-slots that are rest or ids of the library
Exportable(weeks, library) ==
    /\ weeks # <<>>
    /\ \A i, j \in DOMAIN weeks : weeks[i].id = weeks[j].id => i = j
    /\ \A i \in DOMAIN weeks :
          /\ weeks[i].id.type = "string" /\ trim(weeks[i].id).body # ""
          /\ weeks[i].name.type = "string" /\ weeks[i].name.body # ""
          /\ weeks[i].name = trim(weeks[i].name)
          /\ \A k \in DOMAIN weeks[i].days :
                \/ weeks[i].days[k].workoutId = JsNull
                \/ \E n \in DOMAIN library :
                      library[n].id = weeks[i].days[k].workoutId

\* the workout id a week holds for a weekday
SlotOf(week, dayName) ==
    LET at == {k \in DOMAIN week.days : week.days[k].name = JsString(dayName)}
    IN  IF at = {} THEN JsNull ELSE week.days[CHOOSE k \in at : TRUE].workoutId

\* C29: export followed by import is a round trip: for a split whose weeks
\* have unique non-empty ids, non-empty trimmed names and day-slots that are
\* rest or library ids, validating the exported text succeeds and yields
\* weeks with the same ids, names and per-weekday workout ids, the days in
\* Monday-to-Sunday order.
C29_ExportImportRoundTrip ==
    [][(/\ lastOp' = "validateImport"
        /\ page.importText = exportText(PageWeeks(page))
        /\ Exportable(PageWeeks(page), PageLibrary(page)))
        => /\ page'.importReady
           /\ page'.importError = Undefined
           /\ IsDefined(page'.importWeeks)
           /\ LET got == Val(page'.importWeeks)
                  weeks == PageWeeks(page)
              IN  /\ Len(got) = Len(weeks)
                  /\ \A i \in DOMAIN weeks :
                        /\ got[i].id = weeks[i].id
                        /\ got[i].name = weeks[i].name
                        /\ Len(got[i].days) = Len(ALL_DAYS)
                        /\ \A j \in DOMAIN ALL_DAYS :
                              /\ got[i].days[j].name = JsString(ALL_DAYS[j])
                              /\ got[i].days[j].workoutId =
                                   SlotOf(weeks[i], ALL_DAYS[j])]_vars

\* the export of an imported split of two weeks, with workouts on Monday
\* and Tuesday, was pasted and validated
C29_Witness ==
    /\ lastOp = "validateImport"
    /\ page.importText = exportText(PageWeeks(page))
    /\ Len(PageWeeks(page)) = MaxWeeks
    /\ PageWeeks(page)[2].days[2].workoutId = JsString("w_b")
    /\ page.importReady
    /\ Val(page.importWeeks)[2].days[2].workoutId = JsString("w_b")

\* C30: ensureV2State never discards v2 data that is already present: for
\* an input that has a workoutLibrary or a split, also when one of the
\* three v2 fields is missing, the result keeps that workoutLibrary and
\* that split unchanged and only fills in the missing fields.
C30_KeepsPresentV2Data ==
    (/\ migrated # Undefined
     /\ IsDefined(raw.workoutLibrary) \/ IsDefined(raw.split))
      => /\ IsDefined(raw.workoutLibrary) =>
               Val(migrated).workoutLibrary = raw.workoutLibrary
         /\ IsDefined(raw.split) => Val(migrated).split = raw.split
         /\ HasV2(Val(migrated))

====
